---------------------------- MODULE Spec2Model ----------------------------
(***************************************************************************)
(* A model of realclientip-go (src/realclientip.go): the strategies that   *)
(* derive the "real" client IP of an HTTP request from its headers and its *)
(* remote address.                                                         *)
(*                                                                         *)
(* Go strings are TLA+ strings, read byte by byte with Len, SubSeq and \o. *)
(* A net.IP is a sequence of bytes (<<>> is the nil IP, 4 bytes the IPv4   *)
(* form, 16 bytes the IPv6 form).  A *net.IPAddr is a record               *)
(* [ok, IP, Zone]; ok = FALSE is the nil pointer.                          *)
(*                                                                         *)
(* A Go function whose body names an intermediate value several times is   *)
(* written as a chain of operators, each passing the value it computed to  *)
(* the next as a parameter: the steps of the body in the order of the code.*)
(***************************************************************************)
EXTENDS Integers, Sequences, FiniteSets, TLC

(***************************************************************************)
(* Go's strings package, as far as realclientip.go calls it.               *)
(***************************************************************************)

\* s[i] of Go (0-based), the empty string when i is out of range.
At(s, i) == IF i >= 0 /\ i < Len(s) THEN SubSeq(s, i + 1, i + 1) ELSE ""

\* s[from:] of Go.
From(s, from) == SubSeq(s, from + 1, Len(s))

\* s[from:to] of Go.
Slice(s, from, to) == SubSeq(s, from + 1, to)

RECURSIVE indexFrom(_, _, _)
indexFrom(s, c, i) ==
  IF i >= Len(s) THEN -1
  ELSE IF At(s, i) = c THEN i
  ELSE indexFrom(s, c, i + 1)

\* strings.IndexByte(s, c): the first index of c in s, -1 if there is none.
IndexByte(s, c) == indexFrom(s, c, 0)

RECURSIVE lastIndexFrom(_, _, _)
lastIndexFrom(s, c, i) ==
  IF i < 0 THEN -1
  ELSE IF At(s, i) = c THEN i
  ELSE lastIndexFrom(s, c, i - 1)

\* strings.LastIndexByte(s, c): the last index of c in s, -1 if there is none.
LastIndexByte(s, c) == lastIndexFrom(s, c, Len(s) - 1)

\* strings.Contains(s, c) for a one-byte c.
Contains(s, c) == IndexByte(s, c) >= 0

RECURSIVE Split(_, _)

\* Split, knowing the first index i of sep in s.
splitAt(s, sep, i) ==
  IF i < 0 THEN <<s>>
  ELSE <<Slice(s, 0, i)>> \o Split(From(s, i + 1), sep)

\* strings.Split(s, sep) for a one-byte sep: always at least one part.
Split(s, sep) == splitAt(s, sep, IndexByte(s, sep))

\* The white space unicode.IsSpace knows among the bytes of the model.
IsSpace(c) == c \in {" ", "\t"}

RECURSIVE TrimLeftSpace(_)
TrimLeftSpace(s) ==
  IF Len(s) > 0 /\ IsSpace(At(s, 0)) THEN TrimLeftSpace(From(s, 1)) ELSE s

RECURSIVE TrimRightSpace(_)
TrimRightSpace(s) ==
  IF Len(s) > 0 /\ IsSpace(At(s, Len(s) - 1))
  THEN TrimRightSpace(Slice(s, 0, Len(s) - 1))
  ELSE s

\* strings.TrimSpace(s).
TrimSpace(s) == TrimRightSpace(TrimLeftSpace(s))

lowerLetters == "abcdefghijklmnopqrstuvwxyz"
upperLetters == "ABCDEFGHIJKLMNOPQRSTUVWXYZ"

\* The letter of to at the index c has in from, c itself if it has none.
mapLetter(c, i, to) == IF i >= 0 THEN At(to, i) ELSE c

\* The upper-case form of an ASCII byte.
ToUpper(c) == mapLetter(c, IndexByte(lowerLetters, c), upperLetters)

\* The lower-case form of an ASCII byte.
ToLower(c) == mapLetter(c, IndexByte(upperLetters, c), lowerLetters)

\* strings.EqualFold(s, t) on ASCII.
EqualFold(s, t) ==
  /\ Len(s) = Len(t)
  /\ \A i \in 0..(Len(s) - 1) : ToLower(At(s, i)) = ToLower(At(t, i))

(***************************************************************************)
(* Go's net package, as far as realclientip.go calls it.                   *)
(***************************************************************************)

IPv4len == 4
IPv6len == 16

\* The bound of dtoi and xtoi: 0xFFFFFF.
big == 16777215

\* The value of a decimal digit, -1 for any other byte.
DecVal(c) == IndexByte("0123456789", c)

\* The value of a hexadecimal digit from its index among the decimal digits,
\* the lower-case and the upper-case letters; -1 if it has none.
hexOf(dec, lower, upper) ==
  IF dec >= 0 THEN dec
  ELSE IF lower >= 0 THEN lower + 10
  ELSE IF upper >= 0 THEN upper + 10
  ELSE -1

\* The value of a hexadecimal digit, -1 for any other byte.
HexVal(c) == hexOf(DecVal(c), IndexByte("abcdef", c), IndexByte("ABCDEF", c))

RECURSIVE dtoiLoop(_, _, _)

\* One round of the loop of dtoi: m is n with the digit at i added.
dtoiStep(s, i, m) ==
  IF m >= big THEN [n |-> big, i |-> i, ok |-> FALSE]
  ELSE dtoiLoop(s, i + 1, m)

\* The loop of dtoi: [n, i, ok] from position i with n read so far.
dtoiLoop(s, i, n) ==
  IF i < Len(s) /\ DecVal(At(s, i)) >= 0
  THEN dtoiStep(s, i, n * 10 + DecVal(At(s, i)))
  ELSE IF i = 0 THEN [n |-> 0, i |-> 0, ok |-> FALSE]
       ELSE [n |-> n, i |-> i, ok |-> TRUE]

\* net.dtoi(s): decimal to integer, with the bytes consumed.
dtoi(s) == dtoiLoop(s, 0, 0)

RECURSIVE xtoiLoop(_, _, _)

\* One round of the loop of xtoi: m is n with the digit at i added.
xtoiStep(s, i, m) ==
  IF m >= big THEN [n |-> 0, i |-> i, ok |-> FALSE]
  ELSE xtoiLoop(s, i + 1, m)

\* The loop of xtoi: [n, i, ok] from position i with n read so far.
xtoiLoop(s, i, n) ==
  IF i < Len(s) /\ HexVal(At(s, i)) >= 0
  THEN xtoiStep(s, i, n * 16 + HexVal(At(s, i)))
  ELSE IF i = 0 THEN [n |-> 0, i |-> 0, ok |-> FALSE]
       ELSE [n |-> n, i |-> i, ok |-> TRUE]

\* net.xtoi(s): hexadecimal to integer, with the bytes consumed.
xtoi(s) == xtoiLoop(s, 0, 0)

\* The prefix of the 16-byte form of an IPv4 address (::ffff:0:0/96).
v4InV6Prefix == <<0, 0, 0, 0, 0, 0, 0, 0, 0, 0, 255, 255>>

\* net.IPv4(a, b, c, d): the 16-byte form of an IPv4 address.
IPv4(p) == v4InV6Prefix \o p

RECURSIVE parseIPv4Loop(_, _, _)

\* Field i of net.parseIPv4: t is the text from the field on, d its dtoi.
parseIPv4Field(t, i, p, d) ==
  IF ~d.ok \/ d.n > 255 THEN <<>>
  ELSE IF d.i > 1 /\ At(t, 0) = "0" THEN <<>>
  ELSE parseIPv4Loop(From(t, d.i), i + 1, Append(p, d.n))

\* Field i of net.parseIPv4, after the '.' that precedes it.
parseIPv4From(t, i, p) == parseIPv4Field(t, i, p, dtoi(t))

\* The loop of net.parseIPv4: field i of s, with the bytes p read so far.
parseIPv4Loop(s, i, p) ==
  IF i >= IPv4len THEN (IF Len(s) # 0 THEN <<>> ELSE IPv4(p))
  ELSE IF Len(s) = 0 THEN <<>>
  ELSE IF i > 0 /\ At(s, 0) # "." THEN <<>>
  ELSE parseIPv4From(IF i > 0 THEN From(s, 1) ELSE s, i, p)

\* net.parseIPv4(s): a dotted decimal IPv4 address, <<>> (nil) if malformed.
parseIPv4(s) == parseIPv4Loop(s, 0, <<>>)

Zeros(n) == [k \in 1..n |-> 0]

\* The state net.parseIPv6 leaves its loop in; ok = FALSE where the loop
\* returns nil.
v6Fail == [ok |-> FALSE, s |-> "", i |-> 0, ellipsis |-> -1, ip |-> <<>>]
v6Done(s, i, ellipsis, ip) ==
  [ok |-> TRUE, s |-> s, i |-> i, ellipsis |-> ellipsis, ip |-> ip]

RECURSIVE parseIPv6Loop(_, _, _, _)

\* The loop of net.parseIPv6 after the ':' that follows a group: s[0] = ':'
\* is an ellipsis.
v6AfterColon(s, i, ellipsis, ip) ==
  IF At(s, 0) = ":"
  THEN IF ellipsis >= 0 THEN v6Fail
       ELSE IF Len(s) = 1 THEN v6Done("", i, i, ip)
       ELSE parseIPv6Loop(From(s, 1), i, i, ip)
  ELSE parseIPv6Loop(s, i, ellipsis, ip)

\* The loop of net.parseIPv6 after a group was saved: the end of the string,
\* or a colon and more.
v6AfterGroup(s, i, ellipsis, ip) ==
  IF Len(s) = 0 THEN v6Done(s, i, ellipsis, ip)
  ELSE IF At(s, 0) # ":" \/ Len(s) = 1 THEN v6Fail
  ELSE v6AfterColon(From(s, 1), i, ellipsis, ip)

\* The loop of net.parseIPv6 at a trailing IPv4 address ip4.
v6TrailingIPv4(i, ellipsis, ip, ip4) ==
  IF ip4 = <<>> THEN v6Fail
  ELSE v6Done("", i + IPv4len, ellipsis, ip \o SubSeq(ip4, 13, 16))

\* The loop of net.parseIPv6 after xtoi read x at the head of s.
v6AfterHex(s, i, ellipsis, ip, x) ==
  IF ~x.ok \/ x.n > 65535 THEN v6Fail
  ELSE IF x.i < Len(s) /\ At(s, x.i) = "."
  THEN IF ellipsis < 0 /\ i # IPv6len - IPv4len THEN v6Fail
       ELSE IF i + IPv4len > IPv6len THEN v6Fail
       ELSE v6TrailingIPv4(i, ellipsis, ip, parseIPv4(s))
  ELSE v6AfterGroup(From(s, x.i), i + 2, ellipsis,
                    ip \o <<x.n \div 256, x.n % 256>>)

\* The loop of net.parseIPv6: ip holds the i bytes read so far.
parseIPv6Loop(s, i, ellipsis, ip) ==
  IF i >= IPv6len THEN v6Done(s, i, ellipsis, ip)
  ELSE v6AfterHex(s, i, ellipsis, ip, xtoi(s))

\* The end of net.parseIPv6: the whole string must be used, and the ellipsis
\* is expanded to the groups that are missing.
v6Finish(r) ==
  IF ~r.ok THEN <<>>
  ELSE IF Len(r.s) # 0 THEN <<>>
  ELSE IF r.i < IPv6len
       THEN IF r.ellipsis < 0 THEN <<>>
            ELSE SubSeq(r.ip, 1, r.ellipsis)
                   \o Zeros(IPv6len - r.i)
                   \o SubSeq(r.ip, r.ellipsis + 1, r.i)
  ELSE IF r.ellipsis >= 0 THEN <<>>
  ELSE r.ip

\* net.parseIPv6(s): an IPv6 address, <<>> (nil) if malformed.
parseIPv6(s) ==
  IF Len(s) >= 2 /\ At(s, 0) = ":" /\ At(s, 1) = ":"
  THEN IF Len(s) = 2 THEN Zeros(IPv6len)
       ELSE v6Finish(parseIPv6Loop(From(s, 2), 0, 0, <<>>))
  ELSE v6Finish(parseIPv6Loop(s, 0, -1, <<>>))

\* The first '.' or ':' of s decides the parser, as in net.ParseIP.
RECURSIVE FirstDotOrColon(_, _)
FirstDotOrColon(s, i) ==
  IF i >= Len(s) THEN ""
  ELSE IF At(s, i) \in {".", ":"} THEN At(s, i)
  ELSE FirstDotOrColon(s, i + 1)

\* net.ParseIP, knowing the first '.' or ':' of s.
parseByFirst(s, c) ==
  IF c = "." THEN parseIPv4(s)
  ELSE IF c = ":" THEN parseIPv6(s)
  ELSE <<>>

\* net.ParseIP(s): the 16-byte form of the address, <<>> (nil) if invalid.
ParseIP(s) == parseByFirst(s, FirstDotOrColon(s, 0))

\* net.IP.To4: the 4-byte form of an IPv4 address, <<>> (nil) otherwise.
To4(ip) ==
  IF Len(ip) = IPv4len THEN ip
  ELSE IF Len(ip) = IPv6len /\ SubSeq(ip, 1, 12) = v4InV6Prefix
       THEN SubSeq(ip, 13, 16)
  ELSE <<>>

\* net.IP.IsUnspecified: 0.0.0.0 or ::.
IsUnspecified(ip) ==
  \/ To4(ip) = Zeros(IPv4len)
  \/ ip = Zeros(IPv6len)

\* net.ubtoa: a byte in decimal.
RECURSIVE utoa(_)
utoa(n) ==
  IF n < 10 THEN SubSeq("0123456789", n + 1, n + 1)
  ELSE utoa(n \div 10) \o SubSeq("0123456789", (n % 10) + 1, (n % 10) + 1)

\* net.appendHex: a 16-bit group in lower-case hexadecimal, no leading zeros.
RECURSIVE appendHex(_)
appendHex(n) ==
  IF n < 16 THEN SubSeq("0123456789abcdef", n + 1, n + 1)
  ELSE appendHex(n \div 16) \o SubSeq("0123456789abcdef", (n % 16) + 1, (n % 16) + 1)

\* The 16-bit group of ip that starts at byte i (0-based).
Group(ip, i) == ip[i + 1] * 256 + ip[i + 2]

\* The end of the run of zero groups of p that starts at byte j.
RECURSIVE ZeroRunEnd(_, _)
ZeroRunEnd(p, j) ==
  IF j < IPv6len /\ p[j + 1] = 0 /\ p[j + 2] = 0 THEN ZeroRunEnd(p, j + 2) ELSE j

RECURSIVE LongestZeroRun(_, _, _, _)

\* One round of the loop below: the run of zero groups at i ends at j.
zeroRunStep(p, i, e0, e1, j) ==
  IF j > i /\ j - i > e1 - e0
  THEN LongestZeroRun(p, j + 2, i, j)
  ELSE LongestZeroRun(p, i + 2, e0, e1)

\* The loop of net.IP.String that finds the longest run of zero groups:
\* [e0, e1] after the groups from byte i on.
LongestZeroRun(p, i, e0, e1) ==
  IF i >= IPv6len THEN [e0 |-> e0, e1 |-> e1]
  ELSE zeroRunStep(p, i, e0, e1, ZeroRunEnd(p, i))

\* The loop of net.IP.String that prints the groups from byte i on.
RECURSIVE printGroups(_, _, _, _)
printGroups(p, i, e0, e1) ==
  IF i >= IPv6len THEN ""
  ELSE IF i = e0
       THEN IF e1 >= IPv6len THEN "::"
            ELSE "::" \o appendHex(Group(p, e1)) \o printGroups(p, e1 + 2, e0, e1)
       ELSE (IF i > 0 THEN ":" ELSE "")
              \o appendHex(Group(p, i)) \o printGroups(p, i + 2, e0, e1)

\* The dotted decimal form of the 4 bytes p4.
dotted(p4) ==
  utoa(p4[1]) \o "." \o utoa(p4[2]) \o "." \o utoa(p4[3]) \o "." \o utoa(p4[4])

\* The IPv6 text of ip with its longest run r of zero groups as "::", unless
\* the run is a single group.
compressed(ip, r) ==
  IF r.e1 - r.e0 <= 2 THEN printGroups(ip, 0, -1, -1)
  ELSE printGroups(ip, 0, r.e0, r.e1)

\* A faulty net.IP.String, to try C22 on: only a 4-byte address is written
\* in dotted decimal.
IPStringNoCollapse(ip) ==
  IF Len(ip) = 0 THEN "<nil>"
  ELSE IF Len(ip) = IPv4len THEN dotted(ip)
  ELSE compressed(ip, LongestZeroRun(ip, 0, -1, -1))

\* net.IP.String: dotted decimal for an IPv4 address (also in its 16-byte
\* form), else the IPv6 text.
IPString(ip) ==
  IF Len(ip) = 0 THEN "<nil>"
  ELSE IF To4(ip) # <<>> THEN dotted(To4(ip))
  ELSE compressed(ip, LongestZeroRun(ip, 0, -1, -1))

\* A faulty IPAddr.String, to try C12 on: the zone is left out.
IPAddrStringWithoutZone(a) == IPString(a.IP)

\* net.IPAddr.String: the address, then "%" and the zone if there is one.
IPAddrString(a) ==
  IF a.Zone # "" THEN IPString(a.IP) \o "%" \o a.Zone ELSE IPString(a.IP)

\* What net.SplitHostPort returns: err = TRUE with no host in every case the
\* code returns addrErr.
addrErr == [host |-> "", port |-> "", err |-> TRUE]

\* The end of net.SplitHostPort: no '[' from j on, no ']' from k on.
splitChecked(hostport, i, host, j, k) ==
  IF Contains(From(hostport, j), "[") THEN addrErr
  ELSE IF Contains(From(hostport, k), "]") THEN addrErr
  ELSE [host |-> host, port |-> From(hostport, i + 1), err |-> FALSE]

\* net.SplitHostPort for a hostport that starts with '[': end is the index
\* of the first ']'.
splitBracketed(hostport, i, end) ==
  IF end < 0 THEN addrErr
  ELSE IF end + 1 # i THEN addrErr
  ELSE splitChecked(hostport, i, Slice(hostport, 1, end), 1, end + 1)

\* net.SplitHostPort for a hostport without brackets: host is what precedes
\* the last colon.
splitBare(hostport, i, host) ==
  IF Contains(host, ":") THEN addrErr
  ELSE splitChecked(hostport, i, host, 0, 0)

\* net.SplitHostPort, knowing the index i of the last colon.
splitAtColon(hostport, i) ==
  IF i < 0 THEN addrErr
  ELSE IF At(hostport, 0) = "["
       THEN splitBracketed(hostport, i, IndexByte(hostport, "]"))
  ELSE splitBare(hostport, i, Slice(hostport, 0, i))

\* net.SplitHostPort(hostport): [host, port, err].
SplitHostPort(hostport) == splitAtColon(hostport, LastIndexByte(hostport, ":"))

\* The bits of byte a that are set in byte m.
RECURSIVE AndByte(_, _)
AndByte(a, m) ==
  IF m = 0 \/ a = 0 THEN 0
  ELSE IF m = 255 THEN a
  ELSE ((a % 2) * (m % 2)) + 2 * AndByte(a \div 2, m \div 2)

\* net.CIDRMask(ones, bits): a mask of bits/8 bytes with ones leading 1s.
CIDRMask(ones, bits) ==
  [k \in 1..(bits \div 8) |->
     IF ones >= 8 * k THEN 255
     ELSE IF ones <= 8 * (k - 1) THEN 0
     ELSE 256 - 2 ^ (8 * k - ones)]

\* The comparison of net.IPNet.Contains: the network number nn and x agree
\* under the mask.
sameUnderMask(nn, mask, x) ==
  /\ Len(mask) = Len(nn)
  /\ Len(x) = Len(nn)
  /\ \A i \in 1..Len(x) : AndByte(nn[i], mask[i]) = AndByte(x[i], mask[i])

\* The 4-byte form p4 of ip if it has one, ip itself otherwise.
orSelf(p4, ip) == IF p4 # <<>> THEN p4 ELSE ip

\* if x := ip.To4(); x != nil { ip = x }
shortest(ip) == orSelf(To4(ip), ip)

\* net.IPNet.Contains(ip): the network includes ip.
IPNetContains(n, ip) == sameUnderMask(shortest(n.IP), n.Mask, shortest(ip))

\* What net.ParseCIDR returns where it fails.
noIPNet == [ok |-> FALSE, IP |-> <<>>, Mask |-> <<>>]

\* The *IPNet of net.ParseCIDR: ip masked by m.
maskedNet(ip, m) ==
  [ok |-> TRUE, IP |-> [k \in 1..Len(ip) |-> AndByte(ip[k], m[k])], Mask |-> m]

\* net.ParseCIDR after the address: ip of iplen bytes, d the dtoi of mask.
cidrOf(ip, iplen, d, mask) ==
  IF ip = <<>> \/ ~d.ok \/ d.i # Len(mask) \/ d.n < 0 \/ d.n > 8 * iplen
  THEN noIPNet
  ELSE maskedNet(ip, CIDRMask(d.n, 8 * iplen))

\* net.ParseCIDR at the address: IPv4 if parseIPv4 takes it (ip4), else IPv6.
cidrParts(ip4, addr, mask) ==
  IF ip4 # <<>> THEN cidrOf(To4(ip4), IPv4len, dtoi(mask), mask)
  ELSE cidrOf(parseIPv6(addr), IPv6len, dtoi(mask), mask)

\* net.ParseCIDR, knowing the index i of the '/'.
cidrAt(s, i) ==
  IF i < 0 THEN noIPNet
  ELSE cidrParts(parseIPv4(Slice(s, 0, i)), Slice(s, 0, i), From(s, i + 1))

\* net.ParseCIDR(s), its *IPNet result: [ok, IP, Mask], the address masked
\* to the prefix length; ok = FALSE where the code returns an error.
ParseCIDR(s) == cidrAt(s, IndexByte(s, "/"))

(***************************************************************************)
(* Go's net/http package: header names.                                    *)
(***************************************************************************)

\* The bytes http.CanonicalHeaderKey accepts in a header name (the token
\* bytes of RFC 7230: letters, digits and some punctuation; the backquote is
\* one of them too, but no string of the model holds it).
IsTokenByte(c) ==
  \/ IndexByte(lowerLetters, c) >= 0
  \/ IndexByte(upperLetters, c) >= 0
  \/ DecVal(c) >= 0
  \/ IndexByte("!#$%&'*+-.^_|~", c) >= 0

\* The loop of http.CanonicalHeaderKey: upper case at the start and after
\* each '-', lower case elsewhere.
RECURSIVE canonicalLoop(_, _, _)
canonicalLoop(s, i, upper) ==
  IF i >= Len(s) THEN ""
  ELSE (IF upper THEN ToUpper(At(s, i)) ELSE ToLower(At(s, i)))
         \o canonicalLoop(s, i + 1, At(s, i) = "-")

\* http.CanonicalHeaderKey(s): s itself when it holds a byte that is no
\* token byte (a space, for one).
CanonicalHeaderKey(s) ==
  IF \E i \in 0..(Len(s) - 1) : ~IsTokenByte(At(s, i)) THEN s
  ELSE canonicalLoop(s, 0, TRUE)

(***************************************************************************)
(* realclientip.go                                                         *)
(***************************************************************************)

xForwardedForHdr == "X-Forwarded-For"
forwardedHdr == "Forwarded"

\* A nil *net.IPAddr.
NilAddr == [ok |-> FALSE, IP |-> <<>>, Zone |-> ""]

\* What a call leaves: the string it returns, or a panic.
Returns(s) == [ret |-> s, panicked |-> FALSE]
Panics == [ret |-> "", panicked |-> TRUE]

\* A faulty trimMatchedEnds, to try C24 on: nothing is dropped.
trimMatchedEndsKeepsAll(s, chars) == s

\* trimMatchedEnds(s, chars) for chars of length 1 or 2 (the only calls):
\* the first and the last byte of s are dropped when they are the first and
\* the last byte of chars.
trimMatchedEnds(s, chars) ==
  IF Len(s) < 2 THEN s
  ELSE IF At(s, 0) # At(chars, 0) THEN s
  ELSE IF At(s, Len(s) - 1) # At(chars, Len(chars) - 1) THEN s
  ELSE Slice(s, 1, Len(s) - 1)

\* A faulty splitZoneAt, to try C26 on: a '%' that is the first byte splits
\* too.
splitZoneAtAny(s, i) ==
  IF i >= 0 THEN [host |-> Slice(s, 0, i), zone |-> From(s, i + 1)]
  ELSE [host |-> s, zone |-> ""]

\* SplitHostZone, knowing the index i of the last '%'.
splitZoneAt(s, i) ==
  IF i > 0 THEN [host |-> Slice(s, 0, i), zone |-> From(s, i + 1)]
  ELSE [host |-> s, zone |-> ""]

\* SplitHostZone(s): [host, zone], split at the last '%' unless it is the
\* first byte.
SplitHostZone(s) == splitZoneAt(s, LastIndexByte(s, "%"))

\* The end of ParseIPAddr: the parsed ip with the zone, nil if ip is nil.
addrOf(ip, zone) ==
  IF ip = <<>> THEN NilAddr ELSE [ok |-> TRUE, IP |-> ip, Zone |-> zone]

\* ParseIPAddr after the split of host and zone.
parseHostZone(hz) == addrOf(ParseIP(hz.host), hz.zone)

\* ParseIPAddr after SplitHostPort returned hp: the host without its port if
\* the split succeeded, else ipStr as it is; then the brackets are dropped.
parseHost(hp, ipStr) ==
  parseHostZone(SplitHostZone(
    trimMatchedEnds(IF ~hp.err THEN hp.host ELSE ipStr, "[]")))

\* ParseIPAddr(ipStr): [ok, IP, Zone]; ok = FALSE is the error return.
ParseIPAddr(ipStr) == parseHost(SplitHostPort(ipStr), ipStr)

\* A faulty specifiedOrNil, to try C13 on: only the IPv6 address :: counts
\* as unspecified.
specifiedOrNilOnlyIPv6(ipAddr) ==
  IF ~ipAddr.ok THEN NilAddr
  ELSE IF ipAddr.IP = Zeros(IPv6len) THEN NilAddr
  ELSE ipAddr

\* goodIPAddr after ParseIPAddr returned ipAddr.
specifiedOrNil(ipAddr) ==
  IF ~ipAddr.ok THEN NilAddr
  ELSE IF IsUnspecified(ipAddr.IP) THEN NilAddr
  ELSE ipAddr

\* goodIPAddr(ipStr): ParseIPAddr, and nil for the unspecified addresses.
goodIPAddr(ipStr) == specifiedOrNil(ParseIPAddr(ipStr))

RECURSIVE findForPart(_, _)

\* A faulty round of the loop, to try C23 on: without the break, the last
\* "for" part is the one used.
forPartOfLastWins(fwdParts, i, fpSplit) ==
  IF Len(fpSplit) # 2 THEN findForPart(fwdParts, i + 1)
  ELSE IF EqualFold(fpSplit[1], "for") /\ findForPart(fwdParts, i + 1) = ""
       THEN fpSplit[2]
  ELSE findForPart(fwdParts, i + 1)

\* One round of the loop of parseForwardedListItem: fpSplit is part i split
\* at every '='.
forPartOf(fwdParts, i, fpSplit) ==
  IF Len(fpSplit) # 2 THEN findForPart(fwdParts, i + 1)
  ELSE IF EqualFold(fpSplit[1], "for") THEN fpSplit[2]
  ELSE findForPart(fwdParts, i + 1)

\* The loop of parseForwardedListItem over the parts from index i on: the
\* value of the first part that splits at '=' into exactly two and whose key
\* is "for", "" if there is none.
findForPart(fwdParts, i) ==
  IF i > Len(fwdParts) THEN ""
  ELSE forPartOf(fwdParts, i, Split(TrimSpace(fwdParts[i]), "="))

\* The end of parseForwardedListItem: forPart without spaces and quotes.
parseForPart(forPart) ==
  IF forPart = "" THEN NilAddr ELSE goodIPAddr(forPart)

\* parseForwardedListItem(fwd): the "for" address of a Forwarded list item.
parseForwardedListItem(fwd) ==
  parseForPart(
    trimMatchedEnds(TrimSpace(findForPart(Split(fwd, ";"), 1)), "\""))

\* A faulty header lookup, to try C29 on: the values under the lower-case
\* spelling of the name are read as well.
HeaderValuesAnySpelling(headers, headerName) ==
  (IF headerName \in DOMAIN headers THEN headers[headerName] ELSE <<>>)
    \o (IF "x-forwarded-for" \in DOMAIN headers /\ headerName = "X-Forwarded-For"
        THEN headers["x-forwarded-for"] ELSE <<>>)

\* headers[headerName] of Go: the values of the header, none if it is absent.
HeaderValues(headers, headerName) ==
  IF headerName \in DOMAIN headers THEN headers[headerName] ELSE <<>>

\* A faulty lastOf, to try C8 on: the first of the matches.
firstOf(matches) ==
  IF Len(matches) = 0 THEN "" ELSE matches[1]

\* The end of lastHeader: the last of the matches, "" if there is none.
lastOf(matches) ==
  IF Len(matches) = 0 THEN "" ELSE matches[Len(matches)]

\* lastHeader(headers, headerName).
lastHeader(headers, headerName) ==
  IF headerName \notin DOMAIN headers THEN ""
  ELSE lastOf(HeaderValues(headers, headerName))

\* The entry getIPAddrList appends for one item of a header value.
itemToAddr(rawListItem, headerName) ==
  IF headerName = forwardedHdr
  THEN parseForwardedListItem(rawListItem)
  ELSE goodIPAddr(rawListItem)

\* The list with the entry in front if the entry is valid.
consIfValid(ipAddr, rest) == IF ipAddr.ok THEN <<ipAddr>> \o rest ELSE rest

\* A faulty itemsToAddrs, to try C10 on: only the valid entries are appended.
RECURSIVE itemsToAddrsValidOnly(_, _, _)
itemsToAddrsValidOnly(items, i, headerName) ==
  IF i > Len(items) THEN <<>>
  ELSE consIfValid(itemToAddr(TrimSpace(items[i]), headerName),
                   itemsToAddrsValidOnly(items, i + 1, headerName))

\* The inner loop of getIPAddrList: the entries of the items from index i on.
RECURSIVE itemsToAddrs(_, _, _)
itemsToAddrs(items, i, headerName) ==
  IF i > Len(items) THEN <<>>
  ELSE <<itemToAddr(TrimSpace(items[i]), headerName)>>
         \o itemsToAddrs(items, i + 1, headerName)

\* A faulty instancesToAddrs, to try C9 on: the entries of a later instance
\* are put before those of an earlier one.
RECURSIVE instancesToAddrsLaterFirst(_, _, _)
instancesToAddrsLaterFirst(hs, i, headerName) ==
  IF i > Len(hs) THEN <<>>
  ELSE instancesToAddrsLaterFirst(hs, i + 1, headerName)
         \o itemsToAddrs(Split(hs[i], ","), 1, headerName)

\* The outer loop of getIPAddrList: the entries of the header instances from
\* index i on.
RECURSIVE instancesToAddrs(_, _, _)
instancesToAddrs(hs, i, headerName) ==
  IF i > Len(hs) THEN <<>>
  ELSE itemsToAddrs(Split(hs[i], ","), 1, headerName)
         \o instancesToAddrs(hs, i + 1, headerName)

\* getIPAddrList(headers, headerName).
getIPAddrList(headers, headerName) ==
  instancesToAddrs(HeaderValues(headers, headerName), 1, headerName)

\* mustParseCIDR(s), for the literals of the table (none of them panics).
mustParseCIDR(s) == ParseCIDR(s)

\* The literals of privateAndLocalRanges, in the order of the source.
privateAndLocalCIDRs ==
  << "10.0.0.0/8", "172.16.0.0/12", "192.168.0.0/16", "127.0.0.0/8",
     "0.0.0.0/8", "169.254.0.0/16", "192.0.0.0/24", "192.0.2.0/24",
     "198.51.100.0/24", "203.0.113.0/24", "192.88.99.0/24", "192.18.0.0/15",
     "224.0.0.0/4", "240.0.0.0/4", "255.255.255.255/32", "100.64.0.0/10",
     "::/128", "::1/128", "100::/64", "2001::/23", "2001:2::/48",
     "2001:db8::/32", "2001::/32", "fc00::/7", "fe80::/10", "ff00::/8",
     "2002::/16" >>

privateAndLocalRanges ==
  [i \in 1..Len(privateAndLocalCIDRs) |-> mustParseCIDR(privateAndLocalCIDRs[i])]

\* A faulty isIPContainedInRanges, to try C27 on: only the first range is
\* looked at.
isIPContainedInRangesFirstOnly(ip, ranges) ==
  Len(ranges) > 0 /\ IPNetContains(ranges[1], ip)

\* isIPContainedInRanges(ip, ranges).
isIPContainedInRanges(ip, ranges) ==
  \E i \in 1..Len(ranges) : IPNetContains(ranges[i], ip)

\* isPrivateOrLocal(ip).
isPrivateOrLocal(ip) == isIPContainedInRanges(ip, privateAndLocalRanges)

(***************************************************************************)
(* The strategies.  A strategy is a record: its kind (the Go type) and the *)
(* fields of that type.                                                    *)
(***************************************************************************)

RemoteAddrStrategy == [kind |-> "RemoteAddrStrategy"]
SingleIPHeaderStrategy(headerName) ==
  [kind |-> "SingleIPHeaderStrategy", headerName |-> headerName]
LeftmostNonPrivateStrategy(headerName) ==
  [kind |-> "LeftmostNonPrivateStrategy", headerName |-> headerName]
RightmostNonPrivateStrategy(headerName) ==
  [kind |-> "RightmostNonPrivateStrategy", headerName |-> headerName]
RightmostTrustedCountStrategy(headerName, trustedCount) ==
  [kind |-> "RightmostTrustedCountStrategy", headerName |-> headerName,
   trustedCount |-> trustedCount]
RightmostTrustedRangeStrategy(headerName, trustedRanges) ==
  [kind |-> "RightmostTrustedRangeStrategy", headerName |-> headerName,
   trustedRanges |-> trustedRanges]
ChainStrategy(strategies) == [kind |-> "ChainStrategy", strategies |-> strategies]

\* What a constructor returns: the strategy and whether err is non-nil.
Built(strat) == [strat |-> strat, err |-> FALSE]
Failed(zero) == [strat |-> zero, err |-> TRUE]

\* A faulty isListHeader, to try C14 on: Forwarded is forgotten.
isListHeaderOnlyXFF(canonical) == canonical = xForwardedForHdr

\* Whether a canonical header name is one of the two list headers.
isListHeader(canonical) ==
  canonical = xForwardedForHdr \/ canonical = forwardedHdr

\* NewChainStrategy(strategies...).
NewChainStrategy(strategies) == ChainStrategy(strategies)

\* A faulty newSingleIPHeader, to try C15 on: the list headers are accepted.
newSingleIPHeaderUnchecked(canonical) == Built(SingleIPHeaderStrategy(canonical))

\* NewSingleIPHeaderStrategy after the header name was made canonical.
newSingleIPHeader(canonical) ==
  IF isListHeader(canonical) THEN Failed(SingleIPHeaderStrategy(""))
  ELSE Built(SingleIPHeaderStrategy(canonical))

\* NewSingleIPHeaderStrategy(headerName).
NewSingleIPHeaderStrategy(headerName) ==
  IF headerName = "" THEN Failed(SingleIPHeaderStrategy(""))
  ELSE newSingleIPHeader(CanonicalHeaderKey(headerName))

\* NewLeftmostNonPrivateStrategy after the header name was made canonical.
newLeftmostNonPrivate(canonical) ==
  IF ~isListHeader(canonical) THEN Failed(LeftmostNonPrivateStrategy(""))
  ELSE Built(LeftmostNonPrivateStrategy(canonical))

\* NewLeftmostNonPrivateStrategy(headerName).
NewLeftmostNonPrivateStrategy(headerName) ==
  IF headerName = "" THEN Failed(LeftmostNonPrivateStrategy(""))
  ELSE newLeftmostNonPrivate(CanonicalHeaderKey(headerName))

\* NewRightmostNonPrivateStrategy after the header name was made canonical.
newRightmostNonPrivate(canonical) ==
  IF ~isListHeader(canonical) THEN Failed(RightmostNonPrivateStrategy(""))
  ELSE Built(RightmostNonPrivateStrategy(canonical))

\* NewRightmostNonPrivateStrategy(headerName).
NewRightmostNonPrivateStrategy(headerName) ==
  IF headerName = "" THEN Failed(RightmostNonPrivateStrategy(""))
  ELSE newRightmostNonPrivate(CanonicalHeaderKey(headerName))

\* NewRightmostTrustedCountStrategy after the header name was made canonical.
newRightmostTrustedCount(canonical, trustedCount) ==
  IF ~isListHeader(canonical) THEN Failed(RightmostTrustedCountStrategy("", 0))
  ELSE Built(RightmostTrustedCountStrategy(canonical, trustedCount))

\* A faulty NewRightmostTrustedCountStrategy, to try C16 on: only a negative
\* count is refused.
NewRightmostTrustedCountStrategyZeroAllowed(headerName, trustedCount) ==
  IF headerName = "" THEN Failed(RightmostTrustedCountStrategy("", 0))
  ELSE IF trustedCount < 0 THEN Failed(RightmostTrustedCountStrategy("", 0))
  ELSE newRightmostTrustedCount(CanonicalHeaderKey(headerName), trustedCount)

\* NewRightmostTrustedCountStrategy(headerName, trustedCount).
NewRightmostTrustedCountStrategy(headerName, trustedCount) ==
  IF headerName = "" THEN Failed(RightmostTrustedCountStrategy("", 0))
  ELSE IF trustedCount <= 0 THEN Failed(RightmostTrustedCountStrategy("", 0))
  ELSE newRightmostTrustedCount(CanonicalHeaderKey(headerName), trustedCount)

\* NewRightmostTrustedRangeStrategy after the header name was made canonical.
newRightmostTrustedRange(canonical, trustedRanges) ==
  IF ~isListHeader(canonical) THEN Failed(RightmostTrustedRangeStrategy("", <<>>))
  ELSE Built(RightmostTrustedRangeStrategy(canonical, trustedRanges))

\* NewRightmostTrustedRangeStrategy(headerName, trustedRanges).
NewRightmostTrustedRangeStrategy(headerName, trustedRanges) ==
  IF headerName = "" THEN Failed(RightmostTrustedRangeStrategy("", <<>>))
  ELSE newRightmostTrustedRange(CanonicalHeaderKey(headerName), trustedRanges)

\* What AddressesAndRangesToIPNets returns on an error: nil.
noRanges == [ok |-> FALSE, nets |-> <<>>]

\* The range that holds the single address ip: all bits of the mask set.
hostNet(ip) ==
  [ok |-> TRUE, IP |-> ip, Mask |-> CIDRMask(Len(ip) * 8, Len(ip) * 8)]

RECURSIVE rangesLoop(_, _, _)

\* A faulty round for a CIDR, to try C17 on: a prefix that does not parse
\* is left out and the loop goes on.
rangeOfCIDRSkipsInvalid(ranges, i, result, ipNet) ==
  IF ~ipNet.ok THEN rangesLoop(ranges, i + 1, result)
  ELSE rangesLoop(ranges, i + 1, Append(result, ipNet))

\* One round of the loop below for a CIDR: ipNet is what ParseCIDR returned.
rangeOfCIDR(ranges, i, result, ipNet) ==
  IF ~ipNet.ok THEN noRanges
  ELSE rangesLoop(ranges, i + 1, Append(result, ipNet))

\* A faulty round for a single address, to try C18 on: without the To4
\* step, an IPv4 address gets the 16-byte form and a /128.
rangeOfAddressUnshortened(ranges, i, result, ip) ==
  IF ip = <<>> THEN noRanges
  ELSE rangesLoop(ranges, i + 1, Append(result, hostNet(ip)))

\* One round of the loop below for a single address: ip is what ParseIP
\* returned.
rangeOfAddress(ranges, i, result, ip) ==
  IF ip = <<>> THEN noRanges
  ELSE rangesLoop(ranges, i + 1, Append(result, hostNet(shortest(ip))))

\* The loop of AddressesAndRangesToIPNets over the strings from index i on,
\* with the ranges made so far: [ok, nets], nets = <<>> (nil) on an error.
rangesLoop(ranges, i, result) ==
  IF i > Len(ranges) THEN [ok |-> TRUE, nets |-> result]
  ELSE IF Contains(ranges[i], "%") THEN noRanges
  ELSE IF Contains(ranges[i], "/")
       THEN rangeOfCIDR(ranges, i, result, ParseCIDR(ranges[i]))
  ELSE rangeOfAddress(ranges, i, result, ParseIP(ranges[i]))

\* AddressesAndRangesToIPNets(ranges...).
AddressesAndRangesToIPNets(ranges) == rangesLoop(ranges, 1, <<>>)

\* The return of a strategy that settled on ipAddr: its string, "" if nil.
addrString(ipAddr) ==
  IF ~ipAddr.ok THEN Returns("") ELSE Returns(IPAddrString(ipAddr))

\* A faulty RemoteAddrStrategy.ClientIP, to try C7 on: ParseIPAddr in the
\* place of goodIPAddr, so that the unspecified address is returned.
RemoteAddrClientIPAnyParsed(strat, headers, remoteAddr) ==
  addrString(ParseIPAddr(remoteAddr))

\* RemoteAddrStrategy.ClientIP(headers, remoteAddr).
RemoteAddrClientIP(strat, headers, remoteAddr) ==
  addrString(goodIPAddr(remoteAddr))

\* SingleIPHeaderStrategy.ClientIP after lastHeader returned ipStr.
singleIPOf(ipStr) ==
  IF ipStr = "" THEN Returns("") ELSE addrString(goodIPAddr(ipStr))

\* SingleIPHeaderStrategy.ClientIP(headers, remoteAddr).
SingleIPHeaderClientIP(strat, headers, remoteAddr) ==
  singleIPOf(lastHeader(headers, strat.headerName))

\* A faulty leftmostLoop, to try C5 on: the first valid entry is returned,
\* private or not.
RECURSIVE leftmostLoopAnyValid(_, _)
leftmostLoopAnyValid(ipAddrs, i) ==
  IF i > Len(ipAddrs) THEN Returns("")
  ELSE IF ipAddrs[i].ok THEN Returns(IPAddrString(ipAddrs[i]))
  ELSE leftmostLoopAnyValid(ipAddrs, i + 1)

\* The loop of LeftmostNonPrivateStrategy.ClientIP from index i (1-based) on.
RECURSIVE leftmostLoop(_, _)
leftmostLoop(ipAddrs, i) ==
  IF i > Len(ipAddrs) THEN Returns("")
  ELSE IF ipAddrs[i].ok /\ ~isPrivateOrLocal(ipAddrs[i].IP)
       THEN Returns(IPAddrString(ipAddrs[i]))
  ELSE leftmostLoop(ipAddrs, i + 1)

\* LeftmostNonPrivateStrategy.ClientIP(headers, remoteAddr).
LeftmostNonPrivateClientIP(strat, headers, remoteAddr) ==
  leftmostLoop(getIPAddrList(headers, strat.headerName), 1)

\* A faulty rightmostLoop, to try C4 on: an invalid entry ends the scan
\* instead of being skipped.
RECURSIVE rightmostLoopStopsAtInvalid(_, _)
rightmostLoopStopsAtInvalid(ipAddrs, i) ==
  IF i < 1 THEN Returns("")
  ELSE IF ~ipAddrs[i].ok THEN Returns("")
  ELSE IF ~isPrivateOrLocal(ipAddrs[i].IP) THEN Returns(IPAddrString(ipAddrs[i]))
  ELSE rightmostLoopStopsAtInvalid(ipAddrs, i - 1)

\* The loop of RightmostNonPrivateStrategy.ClientIP from index i (1-based)
\* down.
RECURSIVE rightmostLoop(_, _)
rightmostLoop(ipAddrs, i) ==
  IF i < 1 THEN Returns("")
  ELSE IF ipAddrs[i].ok /\ ~isPrivateOrLocal(ipAddrs[i].IP)
       THEN Returns(IPAddrString(ipAddrs[i]))
  ELSE rightmostLoop(ipAddrs, i - 1)

\* RightmostNonPrivateStrategy.ClientIP after getIPAddrList.
rightmostNonPrivateOf(ipAddrs) == rightmostLoop(ipAddrs, Len(ipAddrs))

\* A faulty RightmostNonPrivateStrategy.ClientIP, to try C28 on: with no
\* candidate to return, the remote address is returned.
RightmostNonPrivateClientIPOrPeer(strat, headers, remoteAddr) ==
  IF rightmostNonPrivateOf(getIPAddrList(headers, strat.headerName)).ret = ""
  THEN RemoteAddrClientIP(strat, headers, remoteAddr)
  ELSE rightmostNonPrivateOf(getIPAddrList(headers, strat.headerName))

\* RightmostNonPrivateStrategy.ClientIP(headers, remoteAddr).
RightmostNonPrivateClientIP(strat, headers, remoteAddr) ==
  rightmostNonPrivateOf(getIPAddrList(headers, strat.headerName))

\* A faulty targetIndex, to try C1 on: the trusted count taken as an offset
\* from the rightmost index, which is one entry too far to the left.
targetIndexOffByOne(ipAddrs, trustedCount) ==
  (Len(ipAddrs) - 1) - trustedCount

\* The index RightmostTrustedCountStrategy.ClientIP reads (0-based, as in
\* the code): rightmostIndex - (trustedCount - 1).
targetIndex(ipAddrs, trustedCount) ==
  (Len(ipAddrs) - 1) - (trustedCount - 1)

\* A faulty addrAtIndex, to try C2 on: the check for a negative index is
\* missing, and Go panics when a slice is read at a negative index.
addrAtIndexUnchecked(ipAddrs, t) ==
  IF t < 0 \/ t >= Len(ipAddrs) THEN Panics
  ELSE addrString(ipAddrs[t + 1])

\* RightmostTrustedCountStrategy.ClientIP at the target index t: an index
\* past the end of the list is Go's index-out-of-range panic.
addrAtIndex(ipAddrs, t) ==
  IF t < 0 THEN Returns("")
  ELSE IF t >= Len(ipAddrs) THEN Panics
  ELSE addrString(ipAddrs[t + 1])

\* RightmostTrustedCountStrategy.ClientIP after getIPAddrList.
trustedCountSelect(ipAddrs, trustedCount) ==
  addrAtIndex(ipAddrs, targetIndex(ipAddrs, trustedCount))

\* RightmostTrustedCountStrategy.ClientIP(headers, remoteAddr).
RightmostTrustedCountClientIP(strat, headers, remoteAddr) ==
  trustedCountSelect(getIPAddrList(headers, strat.headerName), strat.trustedCount)

\* A faulty trustedRangeLoop, to try C3 on: an invalid entry is skipped like
\* a trusted one instead of ending the scan.
RECURSIVE trustedRangeLoopSkipsInvalid(_, _, _)
trustedRangeLoopSkipsInvalid(ipAddrs, i, trustedRanges) ==
  IF i < 1 THEN Returns("")
  ELSE IF ~ipAddrs[i].ok \/ isIPContainedInRanges(ipAddrs[i].IP, trustedRanges)
       THEN trustedRangeLoopSkipsInvalid(ipAddrs, i - 1, trustedRanges)
  ELSE Returns(IPAddrString(ipAddrs[i]))

\* The loop of RightmostTrustedRangeStrategy.ClientIP from index i (1-based)
\* down.
RECURSIVE trustedRangeLoop(_, _, _)
trustedRangeLoop(ipAddrs, i, trustedRanges) ==
  IF i < 1 THEN Returns("")
  ELSE IF ipAddrs[i].ok /\ isIPContainedInRanges(ipAddrs[i].IP, trustedRanges)
       THEN trustedRangeLoop(ipAddrs, i - 1, trustedRanges)
  ELSE addrString(ipAddrs[i])

\* A faulty trustedRangeSelect, to try C30 on: the scan starts one candidate
\* too far to the left.
trustedRangeSelectOffByOne(ipAddrs, trustedRanges) ==
  trustedRangeLoop(ipAddrs, Len(ipAddrs) - 1, trustedRanges)

\* RightmostTrustedRangeStrategy.ClientIP after getIPAddrList.
trustedRangeSelect(ipAddrs, trustedRanges) ==
  trustedRangeLoop(ipAddrs, Len(ipAddrs), trustedRanges)

\* RightmostTrustedRangeStrategy.ClientIP(headers, remoteAddr).
RightmostTrustedRangeClientIP(strat, headers, remoteAddr) ==
  trustedRangeSelect(getIPAddrList(headers, strat.headerName), strat.trustedRanges)

RECURSIVE ClientIP(_, _, _)
RECURSIVE chainLoop(_, _, _, _)

\* The record of one sub-strategy call of a chain: its index, its arguments
\* and what it returned.
callOf(i, headers, remoteAddr, r) ==
  [index |-> i, headers |-> headers, remoteAddr |-> remoteAddr, ret |-> r.ret]

\* What a chain leaves when its call was followed by the calls of rest.
afterCall(call, rest) == [rest EXCEPT !.calls = <<call>> \o rest.calls]

\* What a chain that goes on after a non-empty result r leaves: the result of
\* the last sub-strategy that returned one.
lastWins(r, rest) == IF rest.ret = "" THEN [rest EXCEPT !.ret = r.ret] ELSE rest

\* A faulty chainStep, to try C6 on: the loop does not stop at the first
\* non-empty result, a later sub-strategy is called and overrides it.
chainStepLastWins(strategies, i, headers, remoteAddr, r) ==
  IF r.panicked
  THEN [ret |-> "", panicked |-> TRUE,
        calls |-> <<callOf(i, headers, remoteAddr, r)>>]
  ELSE lastWins(r, afterCall(callOf(i, headers, remoteAddr, r),
                             chainLoop(strategies, i + 1, headers, remoteAddr)))

\* One round of the loop of ChainStrategy.ClientIP: sub-strategy i returned
\* r (or panicked).
chainStep(strategies, i, headers, remoteAddr, r) ==
  IF r.panicked
  THEN [ret |-> "", panicked |-> TRUE,
        calls |-> <<callOf(i, headers, remoteAddr, r)>>]
  ELSE IF r.ret # ""
  THEN [ret |-> r.ret, panicked |-> FALSE,
        calls |-> <<callOf(i, headers, remoteAddr, r)>>]
  ELSE afterCall(callOf(i, headers, remoteAddr, r),
                 chainLoop(strategies, i + 1, headers, remoteAddr))

\* The loop of ChainStrategy.ClientIP over the sub-strategies from index i
\* on: what it returns, and calls, the sub-strategy calls it made in order.
chainLoop(strategies, i, headers, remoteAddr) ==
  IF i > Len(strategies) THEN [ret |-> "", panicked |-> FALSE, calls |-> <<>>]
  ELSE chainStep(strategies, i, headers, remoteAddr,
                 ClientIP(strategies[i], headers, remoteAddr))

\* ChainStrategy.ClientIP(headers, remoteAddr), with the calls it made.
ChainClientIP(strat, headers, remoteAddr) ==
  chainLoop(strat.strategies, 1, headers, remoteAddr)

\* What the caller of a chain sees of it.
withoutCalls(c) == [ret |-> c.ret, panicked |-> c.panicked]

\* Strategy.ClientIP: the method of the strategy's type.
ClientIP(strat, headers, remoteAddr) ==
  CASE strat.kind = "RemoteAddrStrategy" ->
         RemoteAddrClientIP(strat, headers, remoteAddr)
    [] strat.kind = "SingleIPHeaderStrategy" ->
         SingleIPHeaderClientIP(strat, headers, remoteAddr)
    [] strat.kind = "LeftmostNonPrivateStrategy" ->
         LeftmostNonPrivateClientIP(strat, headers, remoteAddr)
    [] strat.kind = "RightmostNonPrivateStrategy" ->
         RightmostNonPrivateClientIP(strat, headers, remoteAddr)
    [] strat.kind = "RightmostTrustedCountStrategy" ->
         RightmostTrustedCountClientIP(strat, headers, remoteAddr)
    [] strat.kind = "RightmostTrustedRangeStrategy" ->
         RightmostTrustedRangeClientIP(strat, headers, remoteAddr)
    [] strat.kind = "ChainStrategy" ->
         withoutCalls(ChainClientIP(strat, headers, remoteAddr))

(***************************************************************************)
(* The inputs of the model: bounded sets of header names, header values,   *)
(* remote addresses and strategy configurations.                           *)
(***************************************************************************)

\* The most list items (over all instances of one header) in a request.
MaxItems == 2
\* The largest trusted count given to NewRightmostTrustedCountStrategy.
MaxTrustedCount == 3

xRealIPHdr == "X-Real-Ip"

\* The header names handed to the constructors.
HeaderNameInputs ==
  {"", "X-Forwarded-For", "x-forwarded-for", "Forwarded", "FORWARDED", "X-Real-IP"}

\* The items of an X-Forwarded-For value: a public IPv4 address, a public
\* IPv6 address with white space, brackets, zone and port, a private
\* address, an empty item and the unspecified address.
XFFItems ==
  {"1.1.1.1", " [2607:f8b0::1%z]:80", "192.168.1.1", "", "0.0.0.0"}

\* The items of a Forwarded value.
ForwardedItems ==
  {"for=1.1.1.1", "By=x; For=\"[2607:f8b0::1%z]:80\"", "for=192.168.1.1",
   "proto=https", "for=nope"}

\* The values of a single-IP header.
SingleValues ==
  {"1.1.1.1", "[2607:f8b0::1%z]:80", "192.168.1.1", "", "0.0.0.0"}

\* The remote addresses.
RemoteAddrs ==
  {"192.168.1.2:8888", "[fe80::1%eth0]:80", "2607:f8b0::1", "@", "0.0.0.0:80", ""}

\* The header values made of exactly k items, joined by commas.
RECURSIVE ValuesOf(_, _)
ValuesOf(items, k) ==
  IF k = 1 THEN items
  ELSE {v \o "," \o item : v \in ValuesOf(items, k - 1), item \in items}

\* The sequences of header instances that hold at most n items in all.
RECURSIVE ListsOf(_, _)
ListsOf(items, n) ==
  {<<>>} \cup
  UNION {{<<v>> \o rest : v \in ValuesOf(items, k), rest \in ListsOf(items, n - k)} :
           k \in 1..n}

\* The sequences of at most n instances of a single-IP header.
RECURSIVE SinglesOf(_, _)
SinglesOf(values, n) ==
  IF n = 0 THEN {<<>>}
  ELSE {<<>>} \cup {<<v>> \o rest : v \in values, rest \in SinglesOf(values, n - 1)}

\* The value sequences a request may carry under a header name.
ValueListsOf(name) ==
  CASE name = xForwardedForHdr -> ListsOf(XFFItems, MaxItems)
    [] name = forwardedHdr -> ListsOf(ForwardedItems, MaxItems)
    [] name = xRealIPHdr -> SinglesOf(SingleValues, MaxItems)

RequestHeaderNames == {xForwardedForHdr, forwardedHdr, xRealIPHdr}

\* What each header of a request holds when the request carries them all.
OtherValues(name) ==
  CASE name = xForwardedForHdr -> <<"8.8.8.8, nope">>
    [] name = forwardedHdr -> <<"for=8.8.4.4">>
    [] name = xRealIPHdr -> <<"9.9.9.9">>

\* The remote address of the requests that vary a header.
peerAddr == "1.2.3.4:80"

\* The requests of the model: each header alone with each of its value lists
\* (with no value at all for the empty list); and each remote address,
\* without any header and with all of them.
Requests ==
  UNION {{[headers |-> [h \in {name} |-> values], remoteAddr |-> peerAddr] :
            values \in ValueListsOf(name)} :
           name \in RequestHeaderNames}
  \cup {[headers |-> [h \in carried |-> OtherValues(h)], remoteAddr |-> remoteAddr] :
          carried \in {{}, RequestHeaderNames}, remoteAddr \in RemoteAddrs}

\* The trusted ranges given to AddressesAndRangesToIPNets.
RangeInputs ==
  {<<>>, <<"192.168.0.0/16", "1.1.1.1">>, <<"2607:f8b0::/32">>, <<"10.0.0.0/8", "fe80::1%eth0">>}

\* The strategies given to NewChainStrategy.
ChainMembers ==
  {RemoteAddrStrategy,
   NewSingleIPHeaderStrategy("X-Real-IP").strat,
   NewRightmostNonPrivateStrategy("X-Forwarded-For").strat}

\* The chains of distinct members, in every order: from no strategy at all
\* to all of them.
RECURSIVE ChainsOf(_)
ChainsOf(members) ==
  {<<>>} \cup
  UNION {{<<s>> \o rest : rest \in ChainsOf(members \ {s})} : s \in members}

(***************************************************************************)
(* The state machine: a strategy is made once, then serves requests.       *)
(***************************************************************************)

VARIABLES
  pc,          \* "start", "made" (a constructor returned), "served" (ClientIP
               \* returned or panicked for the request at hand)
  strat,       \* the strategy the constructor returned
  err,         \* whether the constructor returned an error
  headers,     \* the headers of the request being served
  remoteAddr,  \* its remote address
  result,      \* what ClientIP returned for it
  panicked,    \* whether ClientIP panicked instead of returning
  ipAddrs,     \* the list getIPAddrList returned to ClientIP (<<>> for a
               \* strategy that does not call it)
  calls,       \* the sub-strategy calls a ChainStrategy made for it
  arg,         \* the argument of a function of the package called by itself
  ret,         \* what that call returned
  threads      \* the concurrent calls of ClientIP on the strategy

vars ==
  <<pc, strat, err, headers, remoteAddr, result, panicked, ipAddrs, calls,
    arg, ret, threads>>

\* The variables of the calls that are not those of the one request at hand.
otherCalls == <<arg, ret, threads>>

NoStrategy == [kind |-> "none"]
NoCall == [fn |-> "none"]

Init ==
  /\ pc = "start"
  /\ strat = NoStrategy
  /\ err = FALSE
  /\ headers = <<>>
  /\ remoteAddr = ""
  /\ result = ""
  /\ panicked = FALSE
  /\ ipAddrs = <<>>
  /\ calls = <<>>
  /\ arg = <<>>
  /\ ret = NoCall
  /\ threads = <<>>

\* No constructor was called yet.
Starting == pc = "start"

\* A constructor call returns made.
Made(made) ==
  /\ pc' = "made"
  /\ strat' = made.strat
  /\ err' = made.err
  /\ UNCHANGED <<headers, remoteAddr, result, panicked, ipAddrs, calls>>
  /\ UNCHANGED otherCalls

MakeRemoteAddr ==
  /\ Starting
  /\ Made(Built(RemoteAddrStrategy))

MakeSingleIPHeader ==
  /\ Starting
  /\ \E headerName \in HeaderNameInputs :
       Made(NewSingleIPHeaderStrategy(headerName))

MakeLeftmostNonPrivate ==
  /\ Starting
  /\ \E headerName \in HeaderNameInputs :
       Made(NewLeftmostNonPrivateStrategy(headerName))

MakeRightmostNonPrivate ==
  /\ Starting
  /\ \E headerName \in HeaderNameInputs :
       Made(NewRightmostNonPrivateStrategy(headerName))

MakeRightmostTrustedCount ==
  /\ Starting
  /\ \E headerName \in HeaderNameInputs, trustedCount \in (-1)..MaxTrustedCount :
       Made(NewRightmostTrustedCountStrategy(headerName, trustedCount))

\* The ranges come from AddressesAndRangesToIPNets; its error is the error
\* of the construction.
trustedRangeStrategyOf(headerName, nets) ==
  IF ~nets.ok THEN Failed(RightmostTrustedRangeStrategy("", <<>>))
  ELSE NewRightmostTrustedRangeStrategy(headerName, nets.nets)

MakeRightmostTrustedRange ==
  /\ Starting
  /\ \E headerName \in HeaderNameInputs, ranges \in RangeInputs :
       Made(trustedRangeStrategyOf(headerName, AddressesAndRangesToIPNets(ranges)))

MakeChain ==
  /\ Starting
  /\ \E strategies \in ChainsOf(ChainMembers) :
       Made(Built(NewChainStrategy(strategies)))

\* The strategy is of the given kind and waits for a request.
Serving(kind) == pc = "made" /\ strat.kind = kind

\* The call of ClientIP for the request req ends as r; list is what
\* getIPAddrList returned to it, made are the sub-strategy calls of a chain.
Answer(req, r, list, made) ==
  /\ pc' = "served"
  /\ headers' = req.headers
  /\ remoteAddr' = req.remoteAddr
  /\ result' = r.ret
  /\ panicked' = r.panicked
  /\ ipAddrs' = list
  /\ calls' = made
  /\ UNCHANGED <<strat, err>>
  /\ UNCHANGED otherCalls

\* The answer of a chain.
AnswerChain(req, c) == Answer(req, withoutCalls(c), <<>>, c.calls)

\* A request is served: ClientIP of the strategy's type is called with the
\* request's headers and remote address.
ServeRemoteAddr ==
  /\ Serving("RemoteAddrStrategy")
  /\ \E req \in Requests :
       Answer(req, RemoteAddrClientIP(strat, req.headers, req.remoteAddr), <<>>, <<>>)

ServeSingleIPHeader ==
  /\ Serving("SingleIPHeaderStrategy")
  /\ \E req \in Requests :
       Answer(req, SingleIPHeaderClientIP(strat, req.headers, req.remoteAddr), <<>>, <<>>)

ServeLeftmostNonPrivate ==
  /\ Serving("LeftmostNonPrivateStrategy")
  /\ \E req \in Requests :
       Answer(req, LeftmostNonPrivateClientIP(strat, req.headers, req.remoteAddr),
              getIPAddrList(req.headers, strat.headerName), <<>>)

ServeRightmostNonPrivate ==
  /\ Serving("RightmostNonPrivateStrategy")
  /\ \E req \in Requests :
       Answer(req, RightmostNonPrivateClientIP(strat, req.headers, req.remoteAddr),
              getIPAddrList(req.headers, strat.headerName), <<>>)

ServeRightmostTrustedCount ==
  /\ Serving("RightmostTrustedCountStrategy")
  /\ \E req \in Requests :
       Answer(req, RightmostTrustedCountClientIP(strat, req.headers, req.remoteAddr),
              getIPAddrList(req.headers, strat.headerName), <<>>)

ServeRightmostTrustedRange ==
  /\ Serving("RightmostTrustedRangeStrategy")
  /\ \E req \in Requests :
       Answer(req, RightmostTrustedRangeClientIP(strat, req.headers, req.remoteAddr),
              getIPAddrList(req.headers, strat.headerName), <<>>)

ServeChain ==
  /\ Serving("ChainStrategy")
  /\ \E req \in Requests :
       AnswerChain(req, ChainClientIP(strat, req.headers, req.remoteAddr))

\* The handler is done with the request: the strategy waits for the next one.
NextRequest ==
  /\ pc = "served"
  /\ pc' = "made"
  /\ headers' = <<>>
  /\ remoteAddr' = ""
  /\ result' = ""
  /\ panicked' = FALSE
  /\ ipAddrs' = <<>>
  /\ calls' = <<>>
  /\ UNCHANGED <<strat, err>>
  /\ UNCHANGED otherCalls

Next ==
  \/ MakeRemoteAddr
  \/ MakeSingleIPHeader
  \/ MakeLeftmostNonPrivate
  \/ MakeRightmostNonPrivate
  \/ MakeRightmostTrustedCount
  \/ MakeRightmostTrustedRange
  \/ MakeChain
  \/ ServeRemoteAddr
  \/ ServeSingleIPHeader
  \/ ServeLeftmostNonPrivate
  \/ ServeRightmostNonPrivate
  \/ ServeRightmostTrustedCount
  \/ ServeRightmostTrustedRange
  \/ ServeChain
  \/ NextRequest

Spec == Init /\ [][Next]_vars

\* A process that makes a strategy of one family only: the direct peer, the
\* single-IP header, the four strategies that read a list header, or a
\* chain.
NextRemoteAddr ==
  \/ MakeRemoteAddr
  \/ ServeRemoteAddr
  \/ NextRequest

SpecRemoteAddr == Init /\ [][NextRemoteAddr]_vars

NextSingleIPHeader ==
  \/ MakeSingleIPHeader
  \/ ServeSingleIPHeader
  \/ NextRequest

SpecSingleIPHeader == Init /\ [][NextSingleIPHeader]_vars

NextLists ==
  \/ MakeLeftmostNonPrivate
  \/ MakeRightmostNonPrivate
  \/ MakeRightmostTrustedCount
  \/ MakeRightmostTrustedRange
  \/ ServeLeftmostNonPrivate
  \/ ServeRightmostNonPrivate
  \/ ServeRightmostTrustedCount
  \/ ServeRightmostTrustedRange
  \/ NextRequest

SpecLists == Init /\ [][NextLists]_vars

NextChain ==
  \/ MakeChain
  \/ ServeChain
  \/ NextRequest

SpecChain == Init /\ [][NextChain]_vars

(***************************************************************************)
(* The properties.  Each is an invariant of Spec over the states in which  *)
(* a strategy that was built without an error has served a request: there  *)
(* headers and remoteAddr are the request, ipAddrs the candidate list and  *)
(* result what ClientIP returned.                                          *)
(***************************************************************************)

\* A strategy of the given kind, built without an error, served a request.
Served(kind) == pc = "served" /\ strat.kind = kind /\ ~err

\* The largest and the smallest member of a non-empty set of numbers.
MaxOf(S) == CHOOSE m \in S : \A x \in S : x <= m
MinOf(S) == CHOOSE m \in S : \A x \in S : m <= x

\* Entries to put in the place of a candidate: invalid, public and private.
Replacements == {NilAddr, goodIPAddr("8.8.8.8"), goodIPAddr("10.0.0.1")}

\* The string of the candidate at position k (1-based) of list if there is
\* such a position and the candidate is valid, the empty string otherwise.
C1_Expected(list, k) ==
  IF k >= 1 /\ k <= Len(list) /\ list[k].ok THEN IPAddrString(list[k]) ELSE ""

\* Whatever stands at a position other than k, the strategy returns res.
C1_OthersIrrelevant(list, N, k, res) ==
  \A j \in (1..Len(list)) \ {k} : \A c \in Replacements :
    trustedCountSelect([list EXCEPT ![j] = c], N) = Returns(res)

C1_Holds(list, N, k) ==
  /\ ~panicked
  /\ result = C1_Expected(list, k)
  /\ C1_OthersIrrelevant(list, N, k, result)

\* C1: a strategy built by NewRightmostTrustedCountStrategy(header, N)
\* returns the string of the candidate at index len(list) - N (0-based; the
\* position len(list) - N + 1 counted from 1) when that index is not
\* negative and the candidate is valid, the empty string otherwise; and no
\* candidate at another position changes what it returns.
C1_TrustedCountIndex ==
  Served("RightmostTrustedCountStrategy") =>
    C1_Holds(ipAddrs, strat.trustedCount, Len(ipAddrs) - strat.trustedCount + 1)

\* C1 happens: with N = 2 and two candidates, the left one is returned while
\* the right one is invalid.
C1_Witness ==
  /\ Served("RightmostTrustedCountStrategy")
  /\ strat.trustedCount = 2
  /\ Len(ipAddrs) = 2
  /\ ~ipAddrs[2].ok
  /\ result # ""
  /\ result = IPAddrString(ipAddrs[1])

\* C2: when the candidate list has fewer than N entries (an absent header
\* included), the trusted-count strategy returns the empty string and does
\* not read the list outside its bounds (which, in Go, is a panic).
C2_ShortListFails ==
  (Served("RightmostTrustedCountStrategy") /\ Len(ipAddrs) < strat.trustedCount)
    => (result = "" /\ ~panicked)

\* C2 happens: a header of valid candidates, fewer than N of them.
C2_Witness ==
  /\ Served("RightmostTrustedCountStrategy")
  /\ strat.headerName \in DOMAIN headers
  /\ Len(ipAddrs) > 0
  /\ \A i \in 1..Len(ipAddrs) : ipAddrs[i].ok
  /\ Len(ipAddrs) < strat.trustedCount
  /\ result = ""
  /\ ~panicked

\* A candidate the trusted-range strategy skips: valid and in the ranges.
C3_Trusted(a, ranges) == a.ok /\ isIPContainedInRanges(a.IP, ranges)

\* The positions of the candidates that are not skipped.
C3_Untrusted(list, ranges) ==
  {i \in 1..Len(list) : ~C3_Trusted(list[i], ranges)}

\* What the scan from the right returns when U are the positions it does not
\* skip: the rightmost of them decides.
C3_StopAt(list, U) ==
  IF U = {} THEN ""
  ELSE IF list[MaxOf(U)].ok THEN IPAddrString(list[MaxOf(U)])
  ELSE ""

\* C3: a strategy built by NewRightmostTrustedRangeStrategy goes through the
\* candidates from the right, skips those that are valid and in the trusted
\* ranges, and stops at the first that is not: it returns that candidate's
\* string if it is valid, the empty string if it is invalid, and the empty
\* string if there is no candidate or all are trusted.
C3_TrustedRangeScan ==
  Served("RightmostTrustedRangeStrategy") =>
    /\ ~panicked
    /\ result = C3_StopAt(ipAddrs, C3_Untrusted(ipAddrs, strat.trustedRanges))

\* C3 happens: the right candidate is trusted and skipped, the left one is
\* valid, not trusted, and returned.
C3_Witness ==
  /\ Served("RightmostTrustedRangeStrategy")
  /\ Len(ipAddrs) = 2
  /\ C3_Trusted(ipAddrs[2], strat.trustedRanges)
  /\ ipAddrs[1].ok
  /\ ~C3_Trusted(ipAddrs[1], strat.trustedRanges)
  /\ result = IPAddrString(ipAddrs[1])

\* The positions of the candidates that are valid and not private or local.
PublicPositions(list) ==
  {i \in 1..Len(list) : list[i].ok /\ ~isPrivateOrLocal(list[i].IP)}

\* The string of the rightmost of the candidates at the positions G.
C4_Rightmost(list, G) ==
  IF G = {} THEN "" ELSE IPAddrString(list[MaxOf(G)])

C4_Holds(list, G) ==
  /\ ~panicked
  /\ result = C4_Rightmost(list, G)
  /\ (result = "" <=> G = {})

\* C4: a strategy built by NewRightmostNonPrivateStrategy returns the
\* rightmost candidate that is valid and outside the private/local ranges,
\* skipping invalid and private candidates alike; it returns the empty string
\* iff there is no such candidate.
C4_RightmostNonPrivate ==
  Served("RightmostNonPrivateStrategy") => C4_Holds(ipAddrs, PublicPositions(ipAddrs))

\* C4 happens: the right candidate is private and skipped, the left one is
\* returned.
C4_Witness ==
  /\ Served("RightmostNonPrivateStrategy")
  /\ Len(ipAddrs) = 2
  /\ ipAddrs[2].ok
  /\ isPrivateOrLocal(ipAddrs[2].IP)
  /\ PublicPositions(ipAddrs) = {1}
  /\ result = IPAddrString(ipAddrs[1])

\* The string of the leftmost of the candidates at the positions G.
C5_Leftmost(list, G) ==
  IF G = {} THEN "" ELSE IPAddrString(list[MinOf(G)])

C5_Holds(list, G) ==
  /\ ~panicked
  /\ result = C5_Leftmost(list, G)
  /\ (result = "" <=> G = {})

\* C5: a strategy built by NewLeftmostNonPrivateStrategy returns the leftmost
\* candidate that is valid and outside the private/local ranges, skipping
\* invalid and private candidates alike; it returns the empty string iff
\* there is no such candidate.
C5_LeftmostNonPrivate ==
  Served("LeftmostNonPrivateStrategy") => C5_Holds(ipAddrs, PublicPositions(ipAddrs))

\* C5 happens: the left candidate is private and skipped, the right one is
\* returned.
C5_Witness ==
  /\ Served("LeftmostNonPrivateStrategy")
  /\ Len(ipAddrs) = 2
  /\ ipAddrs[1].ok
  /\ isPrivateOrLocal(ipAddrs[1].IP)
  /\ PublicPositions(ipAddrs) = {2}
  /\ result = IPAddrString(ipAddrs[2])

\* What each sub-strategy of the chain returns for the request, called alone.
C6_Alone ==
  [i \in 1..Len(strat.strategies) |->
     ClientIP(strat.strategies[i], headers, remoteAddr).ret]

\* The sub-strategies that return a non-empty string, alone being the results.
C6_NonEmpty(alone) == {i \in DOMAIN alone : alone[i] # ""}

\* The chain called exactly its first n sub-strategies, in the order given,
\* each with the headers and remote address of the request.
C6_CalledFirst(alone, n) ==
  /\ Len(calls) = n
  /\ \A j \in 1..n :
       /\ calls[j].index = j
       /\ calls[j].headers = headers
       /\ calls[j].remoteAddr = remoteAddr
       /\ calls[j].ret = alone[j]

C6_Decides(alone, F) ==
  /\ ~panicked
  /\ (result = "" <=> F = {})
  /\ IF F = {}
     THEN result = "" /\ C6_CalledFirst(alone, Len(alone))
     ELSE result = alone[MinOf(F)] /\ C6_CalledFirst(alone, MinOf(F))

C6_Holds(alone) == C6_Decides(alone, C6_NonEmpty(alone))

\* C6: ChainStrategy.ClientIP calls its sub-strategies in the order they were
\* given to NewChainStrategy, each with the same headers and remote address,
\* returns the result of the first whose result is not empty without calling
\* a later one, and returns the empty string iff all of them return it (so
\* also for a chain of no strategy).
C6_ChainFirstNonEmpty ==
  Served("ChainStrategy") => C6_Holds(C6_Alone)

\* C6 happens: of three sub-strategies the first returns nothing, the second
\* decides, and the third, which would return another address, is not called.
C6_Witness ==
  /\ Served("ChainStrategy")
  /\ Len(strat.strategies) = 3
  /\ Len(calls) = 2
  /\ calls[1].ret = ""
  /\ result # ""
  /\ result = calls[2].ret
  /\ C6_Alone[3] \notin {"", result}

\* The string of a parsed address, the empty string if it did not parse or
\* is the unspecified address.
StringIfSpecified(a) ==
  IF a.ok /\ ~IsUnspecified(a.IP) THEN IPAddrString(a) ELSE ""

\* The result is that of the host without the port, where remoteAddr splits
\* into a host and a port.
C7_PortDiscarded(hp) ==
  ~hp.err => result = StringIfSpecified(ParseIPAddr(hp.host))

\* What the remote addresses of the model come to.
C7_Examples ==
  /\ remoteAddr = "192.168.1.2:8888" => result = "192.168.1.2"
  /\ remoteAddr = "1.2.3.4:80" => result = "1.2.3.4"
  /\ remoteAddr = "[fe80::1%eth0]:80" => result = "fe80::1%eth0"
  /\ remoteAddr = "2607:f8b0::1" => result = "2607:f8b0::1"
  /\ remoteAddr \in {"@", "0.0.0.0:80", ""} => result = ""

\* Header collections to put in the place of the request's: none, a list
\* header alone, and every header of the model.
C7_HeaderCollections ==
  {[h \in carried |-> OtherValues(h)] :
     carried \in {{}, {xForwardedForHdr}, RequestHeaderNames}}

C7_Holds(a) ==
  /\ ~panicked
  /\ result = StringIfSpecified(a)
  /\ (result = "" <=> (~a.ok \/ IsUnspecified(a.IP)))
  /\ C7_PortDiscarded(SplitHostPort(remoteAddr))
  /\ C7_Examples
  /\ \A hs \in C7_HeaderCollections :
       RemoteAddrClientIP(strat, hs, remoteAddr) = Returns(result)

C8_Earlier == {<<>>, <<"9.9.9.9">>, <<"nope", "10.0.0.1">>}

\* What the last value v of the header comes to.
C8_OfValue(v) == IF v = "" THEN "" ELSE StringIfSpecified(ParseIPAddr(v))

\* Whatever instances precede the last value, the strategy returns res.
C8_EarlierIrrelevant(name, last, res) ==
  \A earlier \in C8_Earlier :
    SingleIPHeaderClientIP(strat, [h \in {name} |-> earlier \o <<last>>], remoteAddr)
      = Returns(res)

C8_Holds(name, vs) ==
  /\ ~panicked
  /\ IF Len(vs) = 0 THEN result = ""
     ELSE /\ result = C8_OfValue(vs[Len(vs)])
          /\ C8_EarlierIrrelevant(name, vs[Len(vs)], result)
  /\ result = "" <=>
       \/ name \notin DOMAIN headers
       \/ Len(vs) = 0
       \/ vs[Len(vs)] = ""
       \/ ~ParseIPAddr(vs[Len(vs)]).ok
       \/ IsUnspecified(ParseIPAddr(vs[Len(vs)]).IP)

\* C8: SingleIPHeaderStrategy.ClientIP uses only the last instance of its
\* header: the result is the parse of the last value whatever the earlier
\* instances are, and it is empty iff the header is absent, has no value, or
\* its last value is empty, does not parse or is the unspecified address.
C8_SingleIPLastInstance ==
  Served("SingleIPHeaderStrategy") =>
    C8_Holds(strat.headerName, HeaderValues(headers, strat.headerName))

\* C8 happens: two instances of the header with different addresses, the
\* second one returned.
C8_Witness ==
  /\ Served("SingleIPHeaderStrategy")
  /\ strat.headerName \in DOMAIN headers
  /\ headers[strat.headerName] = <<"1.1.1.1", "[2607:f8b0::1%z]:80">>
  /\ result = "2607:f8b0::1%z"

ListKinds ==
  {"LeftmostNonPrivateStrategy", "RightmostNonPrivateStrategy",
   "RightmostTrustedCountStrategy", "RightmostTrustedRangeStrategy"}

\* A strategy that reads a list header served a request.
ServedList == pc = "served" /\ strat.kind \in ListKinds

\* The comma-separated items of each of the instances hs.
ItemsOf(hs) == [a \in 1..Len(hs) |-> Split(hs[a], ",")]

\* The number of items in the instances before instance a.
RECURSIVE ItemsBefore(_, _)
ItemsBefore(items, a) ==
  IF a <= 1 THEN 0
  ELSE ItemsBefore(items, a - 1) + Len(items[a - 1])

\* The entry of item b of instance a, parsed by itself.
EntryOf(items, a, b, name) == itemToAddr(TrimSpace(items[a][b]), name)

\* Item b of instance a stands at the position that counts all items of the
\* earlier instances and the items to its left.
C9_InOrder(items, name) ==
  \A a \in DOMAIN items : \A b \in 1..Len(items[a]) :
    /\ ItemsBefore(items, a) + b <= Len(ipAddrs)
    /\ ipAddrs[ItemsBefore(items, a) + b] = EntryOf(items, a, b, name)

\* C9: getIPAddrList keeps the order: the list is the concatenation, in the
\* order of the header instances, of the comma-separated items of each
\* instance from left to right.
C9_OrderPreserved ==
  ServedList =>
    C9_InOrder(ItemsOf(HeaderValues(headers, strat.headerName)), strat.headerName)

\* C9 happens: two instances with different valid addresses, in the list in
\* the order of the instances.
C9_Witness ==
  /\ ServedList
  /\ strat.headerName \in DOMAIN headers
  /\ Len(headers[strat.headerName]) = 2
  /\ Len(ipAddrs) = 2
  /\ ipAddrs[1].ok /\ ipAddrs[2].ok
  /\ IPAddrString(ipAddrs[1]) = "1.1.1.1"
  /\ IPAddrString(ipAddrs[2]) = "192.168.1.1"

\* The number of commas in h.
Commas(h) == Cardinality({i \in 0..(Len(h) - 1) : At(h, i) = ","})

\* The sum over the instances from a on of the number of commas plus one.
RECURSIVE ItemCount(_, _)
ItemCount(hs, a) ==
  IF a > Len(hs) THEN 0 ELSE Commas(hs[a]) + 1 + ItemCount(hs, a + 1)

\* An item that does not parse leaves a nil entry at its position.
C10_InvalidKept(hs, items, name) ==
  \A a \in 1..Len(hs) : \A b \in 1..(Commas(hs[a]) + 1) :
    ~EntryOf(items, a, b, name).ok =>
      /\ ItemsBefore(items, a) + b <= Len(ipAddrs)
      /\ ipAddrs[ItemsBefore(items, a) + b] = NilAddr

C10_Holds(hs, name) ==
  /\ Len(ipAddrs) = ItemCount(hs, 1)
  /\ C10_InvalidKept(hs, ItemsOf(hs), name)

\* A nil entry at the index of the trusted-count strategy makes it fail.
C10_CountsForIndex ==
  (/\ Served("RightmostTrustedCountStrategy")
   /\ Len(ipAddrs) >= strat.trustedCount
   /\ ipAddrs[Len(ipAddrs) - strat.trustedCount + 1] = NilAddr)
    => result = ""

\* C10: getIPAddrList drops no item: the list has one entry for each
\* comma-separated item of each header instance (its length is the sum over
\* the instances of the number of commas plus one); an item that does not
\* parse, an empty one included, leaves a nil entry at its position, and
\* that entry counts for the index of the trusted-count strategy.
C10_NothingDropped ==
  ServedList =>
    /\ C10_Holds(HeaderValues(headers, strat.headerName), strat.headerName)
    /\ C10_CountsForIndex

\* C10 happens: a value with a leading comma gives a nil entry before the
\* valid one, and the trusted-count strategy with N = 2 lands on it.
C10_Witness ==
  /\ Served("RightmostTrustedCountStrategy")
  /\ strat.trustedCount = 2
  /\ strat.headerName \in DOMAIN headers
  /\ Len(headers[strat.headerName]) = 1
  /\ At(headers[strat.headerName][1], 0) = ","
  /\ ipAddrs[1] = NilAddr
  /\ ipAddrs[2].ok
  /\ result = ""

\* C11: ClientIP never panics: whatever strategy the constructors handed out
\* (the one returned together with an error included) and whatever the
\* request, the call completes, and a failure is the empty string.
C11_NeverPanics == pc = "served" => ~panicked

\* The valid entries of a candidate list, as a set.
ValidEntries(list) == {list[i] : i \in {j \in 1..Len(list) : list[j].ok}}

\* The addresses of the values vs of a header taken whole.
WholeValues(vs) == {goodIPAddr(vs[i]) : i \in 1..Len(vs)}

\* The address a is one a request holds: that of its remote address, that of
\* one of its header values taken whole or that of an item of one of them.
C12_InRequest(a, hs, peer) ==
  \/ a = goodIPAddr(peer)
  \/ \E h \in DOMAIN hs : a \in WholeValues(hs[h])
  \/ \E h \in DOMAIN hs : a \in ValidEntries(getIPAddrList(hs, h))

\* The address a is one the strategy that served the request chooses among.
C12_IsCandidate(a) ==
  CASE strat.kind \in ListKinds -> a \in ValidEntries(ipAddrs)
    [] strat.kind = "RemoteAddrStrategy" -> a = goodIPAddr(remoteAddr)
    [] strat.kind = "SingleIPHeaderStrategy" ->
         a \in WholeValues(HeaderValues(headers, strat.headerName))
    [] strat.kind = "ChainStrategy" -> C12_InRequest(a, headers, remoteAddr)

\* The string s ends with "%" and the zone.
C12_EndsWithZone(s, zone) ==
  /\ Len(s) > Len(zone) + 1
  /\ From(s, Len(s) - Len(zone) - 1) = "%" \o zone

\* The string s is the canonical text of the address a, which is what s
\* parses to, and of nothing else: a is an address, s is its text, s does
\* not split into a host and a port, and s ends with the zone of a if a has
\* one.
C12_IsTextOf(s, a) ==
  /\ a.ok
  /\ s = IPAddrString(a)
  /\ SplitHostPort(s).err
  /\ a.Zone # "" => C12_EndsWithZone(s, a.Zone)
  /\ a.Zone = "" => ~Contains(s, "%")

\* The string s, which parses to a, is the text of one of the candidates.
C12_IsTextOfOne(s, a) ==
  /\ C12_IsTextOf(s, a)
  /\ C12_IsCandidate(a)

InitCall(inputs) ==
  /\ pc = "call"
  /\ arg \in inputs
  /\ ret = NoCall
  /\ strat = NoStrategy
  /\ err = FALSE
  /\ headers = <<>>
  /\ remoteAddr = ""
  /\ result = ""
  /\ panicked = FALSE
  /\ ipAddrs = <<>>
  /\ calls = <<>>
  /\ threads = <<>>

\* The call was not made yet.
Calling == pc = "call"

\* The call returns r.
Returned(r) ==
  /\ pc' = "returned"
  /\ ret' = r
  /\ UNCHANGED <<arg, threads>>
  /\ UNCHANGED <<strat, err, headers, remoteAddr, result, panicked, ipAddrs, calls>>

\* The texts of the unspecified addresses 0.0.0.0 and ::, plain, with a
\* port, in brackets, with a zone, written out in full, and as an IPv6
\* address that ends in or maps an IPv4 address.
UnspecifiedTokens ==
  {"0.0.0.0", "0.0.0.0:80", "0.0.0.0%eth0", "::", "[::]", "[::]:80", "::%eth0",
   "[::%eth0]:80", "0:0:0:0:0:0:0:0", "::0", "0::", "::0.0.0.0", "::ffff:0.0.0.0",
   "[::ffff:0.0.0.0]:80"}

\* Texts of other addresses, and texts that are not an address.
SpecifiedTokens ==
  {"1.1.1.1", "0.0.0.1", "1.1.1.1:80", "::1", "[::1]:80", "::ffff:0.0.0.1",
   "fe80::1%eth0", "[2607:f8b0::1%z]:80"}
MalformedTokens ==
  {"", "nope", "0.0.0", "0.0.0.0.0", ":::", "0.0.0.0/0", "00.0.0.0", "[::", "%eth0"}

TokenInputs == UnspecifiedTokens \cup SpecifiedTokens \cup MalformedTokens

\* A request that carries the token wherever a strategy looks for an
\* address: as the value of each header (as the "for" parameter of
\* Forwarded) and as the remote address.
forwardedFor(token) == "for=\"" \o token \o "\""

headersOfToken(token) ==
  [h \in RequestHeaderNames |->
     IF h = forwardedHdr THEN <<forwardedFor(token)>> ELSE <<token>>]

\* One strategy of each type, the list strategies set up so that they pick
\* the only candidate if it is valid.
TokenStrategies ==
  {RemoteAddrStrategy,
   NewSingleIPHeaderStrategy("X-Real-IP").strat,
   NewLeftmostNonPrivateStrategy("X-Forwarded-For").strat,
   NewRightmostNonPrivateStrategy("Forwarded").strat,
   NewRightmostTrustedCountStrategy("X-Forwarded-For", 1).strat,
   NewRightmostTrustedRangeStrategy("Forwarded", <<>>).strat,
   NewChainStrategy(<<NewSingleIPHeaderStrategy("X-Real-IP").strat,
                      NewRightmostTrustedCountStrategy("Forwarded", 1).strat>>)}

CallParseIPAddr ==
  /\ Calling
  /\ Returned([fn |-> "ParseIPAddr", addr |-> ParseIPAddr(arg)])

CallGoodIPAddr ==
  /\ Calling
  /\ Returned([fn |-> "goodIPAddr", addr |-> goodIPAddr(arg)])

CallGetIPAddrList ==
  /\ Calling
  /\ \E headerName \in {xForwardedForHdr, forwardedHdr} :
       Returned([fn |-> "getIPAddrList", headerName |-> headerName,
                 list |-> getIPAddrList(headersOfToken(arg), headerName)])

CallClientIP ==
  /\ Calling
  /\ \E s \in TokenStrategies :
       Returned([fn |-> "ClientIP", strat |-> s,
                 out |-> ClientIP(s, headersOfToken(arg), arg)])

NextParse ==
  \/ CallParseIPAddr
  \/ CallGoodIPAddr
  \/ CallGetIPAddrList
  \/ CallClientIP

SpecParse == InitCall(TokenInputs) /\ [][NextParse]_vars

\* The address a is unspecified, in one of the two forms net.ParseIP gives
\* it: sixteen zero bytes, or 0.0.0.0 in its 16-byte form.
C13_IsUnspecified(a) ==
  a.IP = Zeros(IPv6len) \/ a.IP = v4InV6Prefix \o Zeros(IPv4len)

\* The string s is the text of an unspecified address, with or without a
\* zone.
C13_IsUnspecifiedText(s) == SplitHostZone(s).host \in {"0.0.0.0", "::"}

\* An entry made from the token is nil if the token is of an unspecified
\* address, and is never an unspecified address.
C13_Rejected(token, a) ==
  /\ token \in UnspecifiedTokens => a = NilAddr
  /\ a.ok => ~C13_IsUnspecified(a)

\* What the call with the token returned is as C13 says.
C13_Holds(token, r) ==
  CASE r.fn = "ParseIPAddr" ->
         token \in UnspecifiedTokens => (r.addr.ok /\ C13_IsUnspecified(r.addr))
    [] r.fn = "goodIPAddr" -> C13_Rejected(token, r.addr)
    [] r.fn = "getIPAddrList" ->
         Len(r.list) = 1 /\ C13_Rejected(token, r.list[1])
    [] r.fn = "ClientIP" ->
         /\ ~r.out.panicked
         /\ ~C13_IsUnspecifiedText(r.out.ret)
         /\ token \in UnspecifiedTokens => r.out.ret = ""

\* C13: no strategy returns the unspecified address.  goodIPAddr returns nil
\* for every text of 0.0.0.0 and of :: (with or without port, brackets or
\* zone), so such a token is a nil entry of the candidate list and every
\* strategy returns the empty string for a request that carries nothing
\* else, while ParseIPAddr returns the address for the same text.
C13_NeverUnspecified == pc = "returned" => C13_Holds(arg, ret)

\* C13 happens: :: with brackets, zone and port is the only candidate of a
\* strategy that would return it if it were valid.
C13_Witness ==
  /\ pc = "returned"
  /\ arg = "[::%eth0]:80"
  /\ ParseIPAddr(arg).ok
  /\ ret.fn = "ClientIP"
  /\ ret.strat.kind = "RightmostTrustedCountStrategy"
  /\ ret.out = Returns("")

(***************************************************************************)
(* The constructors called by themselves.                                  *)
(***************************************************************************)

\* Spellings of the two list headers, which differ in letter case only.
XFFSpellings ==
  {"X-Forwarded-For", "x-forwarded-for", "X-FORWARDED-FOR", "x-Forwarded-for"}
ForwardedSpellings == {"Forwarded", "forwarded", "FORWARDED", "fORWARDED"}

\* Other header names with the canonical form of each; a name with a byte
\* that is not allowed in a header name (a space) is left as it is.
OtherHeaderNames ==
  {<<"X-Real-IP", "X-Real-Ip">>, <<"x-real-ip", "X-Real-Ip">>,
   <<"CF-Connecting-IP", "Cf-Connecting-Ip">>, <<"true-client-ip", "True-Client-Ip">>,
   <<"X-Forwarded", "X-Forwarded">>, <<"forwarded-for", "Forwarded-For">>,
   <<"x forwarded for", "x forwarded for">>, <<" Forwarded", " Forwarded">>,
   <<"X-Forwarded-For ", "X-Forwarded-For ">>, <<"x_forwarded_for", "X_forwarded_for">>}

ConstructorHeaderNames ==
  {""} \cup XFFSpellings \cup ForwardedSpellings \cup {n[1] : n \in OtherHeaderNames}

\* The arguments of a constructor call: a header name and a trusted count
\* (which only NewRightmostTrustedCountStrategy takes).
ConstructorInputs ==
  [headerName : ConstructorHeaderNames, trustedCount : (-1)..MaxTrustedCount]

\* The ranges given to NewRightmostTrustedRangeStrategy.
someRanges == AddressesAndRangesToIPNets(<<"192.168.0.0/16", "1.1.1.1">>).nets

\* What a constructor returned.
constructed(fn, made) == [fn |-> fn, strat |-> made.strat, err |-> made.err]

CallNewSingleIPHeaderStrategy ==
  /\ Calling
  /\ Returned(constructed("NewSingleIPHeaderStrategy",
                          NewSingleIPHeaderStrategy(arg.headerName)))

CallNewLeftmostNonPrivateStrategy ==
  /\ Calling
  /\ Returned(constructed("NewLeftmostNonPrivateStrategy",
                          NewLeftmostNonPrivateStrategy(arg.headerName)))

CallNewRightmostNonPrivateStrategy ==
  /\ Calling
  /\ Returned(constructed("NewRightmostNonPrivateStrategy",
                          NewRightmostNonPrivateStrategy(arg.headerName)))

CallNewRightmostTrustedCountStrategy ==
  /\ Calling
  /\ Returned(constructed("NewRightmostTrustedCountStrategy",
                          NewRightmostTrustedCountStrategy(arg.headerName,
                                                           arg.trustedCount)))

CallNewRightmostTrustedRangeStrategy ==
  /\ Calling
  /\ Returned(constructed("NewRightmostTrustedRangeStrategy",
                          NewRightmostTrustedRangeStrategy(arg.headerName, someRanges)))

NextMake ==
  \/ CallNewSingleIPHeaderStrategy
  \/ CallNewLeftmostNonPrivateStrategy
  \/ CallNewRightmostNonPrivateStrategy
  \/ CallNewRightmostTrustedCountStrategy
  \/ CallNewRightmostTrustedRangeStrategy

SpecMake == InitCall(ConstructorInputs) /\ [][NextMake]_vars

\* The constructors of the strategies that read a list header.
ListConstructors ==
  {"NewLeftmostNonPrivateStrategy", "NewRightmostNonPrivateStrategy",
   "NewRightmostTrustedCountStrategy", "NewRightmostTrustedRangeStrategy"}

\* A list constructor returned.
ReturnedFromListConstructor == pc = "returned" /\ ret.fn \in ListConstructors

\* Whether the header name is one a list constructor accepts.
C14_NameAccepted(name) == name \in XFFSpellings \cup ForwardedSpellings

\* The header name a strategy made from the given name stores.
C14_Stored(name) ==
  IF name \in XFFSpellings THEN "X-Forwarded-For" ELSE "Forwarded"

\* C14 as it was stated: each of the four list constructors returns an error
\* iff the header name is empty or is not a spelling of X-Forwarded-For or
\* Forwarded, and a strategy returned without an error stores the canonical
\* name.
C14_ErrorIffBadName ==
  ReturnedFromListConstructor =>
    /\ ret.err <=> ~C14_NameAccepted(arg.headerName)
    /\ ~ret.err => ret.strat.headerName = C14_Stored(arg.headerName)

\* Whether the other arguments of the call are such that the constructor
\* accepts them: the trusted count of NewRightmostTrustedCountStrategy is
\* positive.
C14_OthersAccepted ==
  ret.fn = "NewRightmostTrustedCountStrategy" => arg.trustedCount >= 1

\* C14, amended: each of the four list constructors returns an error iff the
\* header name is empty or is not a spelling (in any letter case) of
\* X-Forwarded-For or Forwarded or, for NewRightmostTrustedCountStrategy,
\* the trusted count is not positive; and a strategy returned without an
\* error stores the canonical name.
C14_ErrorIffBadNameOrCount ==
  ReturnedFromListConstructor =>
    /\ ret.err <=> ~(C14_NameAccepted(arg.headerName) /\ C14_OthersAccepted)
    /\ ~ret.err => ret.strat.headerName = C14_Stored(arg.headerName)

\* C14 happens: a spelling in another letter case is accepted and stored in
\* the canonical form.
C14_Witness ==
  /\ ReturnedFromListConstructor
  /\ ret.fn = "NewRightmostTrustedRangeStrategy"
  /\ arg.headerName = "fORWARDED"
  /\ ~ret.err
  /\ ret.strat.headerName = "Forwarded"

\* NewSingleIPHeaderStrategy returned.
ReturnedFromSingleIPHeader ==
  pc = "returned" /\ ret.fn = "NewSingleIPHeaderStrategy"

\* The canonical form of a header name that is not one of a list header.
C15_CanonicalOf(name) ==
  (CHOOSE n \in OtherHeaderNames : n[1] = name)[2]

\* A strategy reads the header of the given name: it returns the address
\* that a request holds under that name and under no other.
C15_ReadsHeader(s, name) ==
  /\ SingleIPHeaderClientIP(s, [h \in {name} |-> <<"1.1.1.1">>], "") = Returns("1.1.1.1")
  /\ \A n \in OtherHeaderNames :
       n[1] # name =>
         SingleIPHeaderClientIP(s, [h \in {n[1]} |-> <<"1.1.1.1">>], "") = Returns("")

\* C15: NewSingleIPHeaderStrategy returns an error iff the header name is
\* empty or is a spelling (in any letter case) of X-Forwarded-For or
\* Forwarded; for every other name the strategy it returns reads the header
\* under the canonical form of the name.
C15_SingleIPHeaderName ==
  ReturnedFromSingleIPHeader =>
    /\ ret.err <=> (arg.headerName = "" \/ C14_NameAccepted(arg.headerName))
    /\ ~ret.err =>
         /\ ret.strat.headerName = C15_CanonicalOf(arg.headerName)
         /\ C15_ReadsHeader(ret.strat, C15_CanonicalOf(arg.headerName))

\* C15 happens: a name in lower case gives a strategy that reads the header
\* under the canonical name, which differs from the name given.
C15_Witness ==
  /\ ReturnedFromSingleIPHeader
  /\ arg.headerName = "x-real-ip"
  /\ ~ret.err
  /\ ret.strat.headerName = "X-Real-Ip"

\* NewRightmostTrustedCountStrategy returned.
ReturnedFromTrustedCount ==
  pc = "returned" /\ ret.fn = "NewRightmostTrustedCountStrategy"

\* C16: NewRightmostTrustedCountStrategy returns an error for every trusted
\* count that is zero or negative, whatever the header name, so a strategy
\* it returns without an error has the trusted count given, which is at
\* least 1.
C16_CountPositive ==
  ReturnedFromTrustedCount =>
    /\ arg.trustedCount <= 0 => ret.err
    /\ ~ret.err => (ret.strat.trustedCount >= 1 /\ ret.strat.trustedCount = arg.trustedCount)

\* C16 happens: a count of zero is refused though the header name is good.
C16_Witness ==
  /\ ReturnedFromTrustedCount
  /\ arg = [headerName |-> "X-Forwarded-For", trustedCount |-> 0]
  /\ ret.err

(***************************************************************************)
(* Calls of AddressesAndRangesToIPNets, as TestAddressesAndRangesToIPNets  *)
(* makes them: a list of at most MaxRanges strings goes in, the ranges or  *)
(* the error come out.                                                     *)
(***************************************************************************)

\* The longest list of strings given to AddressesAndRangesToIPNets.
MaxRanges == 2

\* Strings with a zone, as an address and as a prefix.
ZonedRangeTexts == {"fe80::1%eth0", "fe80::%eth0/64"}

\* Prefixes net.ParseCIDR refuses: too long a prefix length, none, a bad
\* address, no address.
UnparsableCIDRTexts == {"1.1.1.1/33", "2607:f8b0::/129", "1.1.1.1/", "nope/8", "/8"}

\* Addresses net.ParseIP refuses.
UnparsableAddressTexts == {"", "nope", "1.1.1", "1.1.1.1:80"}

\* Single addresses net.ParseIP takes.
AddressTexts == {"1.1.1.1", "::ffff:1.2.3.4", "2607:f8b0::1", "::"}

\* Prefixes net.ParseCIDR takes.
CIDRTexts == {"192.168.0.0/16", "10.1.2.3/8", "2607:f8b0::1/32", "::ffff:1.2.3.4/120", "0.0.0.0/0"}

RangeTexts ==
  ZonedRangeTexts \cup UnparsableCIDRTexts \cup UnparsableAddressTexts
    \cup AddressTexts \cup CIDRTexts

RangeLists == UNION {[1..n -> RangeTexts] : n \in 0..MaxRanges}

\* What AddressesAndRangesToIPNets returned: err is ~ok.
converted(made) ==
  [fn |-> "AddressesAndRangesToIPNets", ok |-> made.ok, nets |-> made.nets]

CallAddressesAndRangesToIPNets ==
  /\ Calling
  /\ Returned(converted(AddressesAndRangesToIPNets(arg)))

NextRanges == CallAddressesAndRangesToIPNets

SpecRanges == InitCall(RangeLists) /\ [][NextRanges]_vars

ReturnedFromRanges ==
  pc = "returned" /\ ret.fn = "AddressesAndRangesToIPNets"

\* A string the conversion must refuse: it holds a zone, or it is one of
\* the prefixes or addresses that do not parse.
C17_Offending(r) ==
  \/ IndexByte(r, "%") >= 0
  \/ r \in UnparsableCIDRTexts
  \/ r \in UnparsableAddressTexts

C17_SomeOffending(ranges) ==
  \E i \in 1..Len(ranges) : C17_Offending(ranges[i])

\* C17: AddressesAndRangesToIPNets returns an error exactly when one of
\* its strings holds a zone or is a prefix or an address that does not
\* parse, and with the error it returns no range at all, whatever came
\* before the offending string.
C17_ErrorIffOffending ==
  ReturnedFromRanges =>
    /\ ~ret.ok <=> C17_SomeOffending(arg)
    /\ ~ret.ok => ret.nets = <<>>

\* An error for a list whose first string is a good address.
C17_Witness ==
  /\ ReturnedFromRanges
  /\ arg = <<"1.1.1.1", "nope">>
  /\ ~ret.ok
  /\ ret.nets = <<>>

\* n bytes b.
C18_Bytes(b, n) == [k \in 1..n |-> b]

\* The address and the mask the range of each good string must have.
C18_Expected(r) ==
  CASE r = "1.1.1.1" ->
         [IP |-> <<1, 1, 1, 1>>, Mask |-> C18_Bytes(255, 4)]
    [] r = "::ffff:1.2.3.4" ->
         [IP |-> <<1, 2, 3, 4>>, Mask |-> C18_Bytes(255, 4)]
    [] r = "2607:f8b0::1" ->
         [IP |-> <<38, 7, 248, 176>> \o C18_Bytes(0, 11) \o <<1>>,
          Mask |-> C18_Bytes(255, 16)]
    [] r = "::" ->
         [IP |-> C18_Bytes(0, 16), Mask |-> C18_Bytes(255, 16)]
    [] r = "192.168.0.0/16" ->
         [IP |-> <<192, 168, 0, 0>>, Mask |-> <<255, 255, 0, 0>>]
    [] r = "10.1.2.3/8" ->
         [IP |-> <<10, 0, 0, 0>>, Mask |-> <<255, 0, 0, 0>>]
    [] r = "2607:f8b0::1/32" ->
         [IP |-> <<38, 7, 248, 176>> \o C18_Bytes(0, 12),
          Mask |-> C18_Bytes(255, 4) \o C18_Bytes(0, 12)]
    [] r = "::ffff:1.2.3.4/120" ->
         [IP |-> C18_Bytes(0, 10) \o <<255, 255, 1, 2, 3, 0>>,
          Mask |-> C18_Bytes(255, 15) \o <<0>>]
    [] r = "0.0.0.0/0" ->
         [IP |-> C18_Bytes(0, 4), Mask |-> C18_Bytes(0, 4)]
    [] OTHER -> [IP |-> <<>>, Mask |-> <<>>]

\* The range n is the one expected of the string r; the range of a single
\* address holds that address and no other.
C18_RangeOf(n, r) ==
  /\ n.IP = C18_Expected(r).IP
  /\ n.Mask = C18_Expected(r).Mask
  /\ r \in AddressTexts =>
       \A t \in AddressTexts : IPNetContains(n, ParseIP(t)) <=> t = r

\* C18: where AddressesAndRangesToIPNets succeeds it returns one range for
\* each string, in the order of the strings: for an IPv4 address, also one
\* written as IPv4-mapped IPv6, the /32 of that address alone, for an IPv6
\* address its /128, for a prefix the address masked to the prefix length;
\* for no string, no range.
C18_OneRangePerInput ==
  (ReturnedFromRanges /\ ret.ok) =>
    /\ Len(ret.nets) = Len(arg)
    /\ \A i \in 1..Len(arg) : C18_RangeOf(ret.nets[i], arg[i])

\* A mapped IPv4 address and a prefix with host bits set, converted.
C18_Witness ==
  /\ ReturnedFromRanges
  /\ arg = <<"::ffff:1.2.3.4", "10.1.2.3/8">>
  /\ ret.ok
  /\ Len(ret.nets) = 2

(***************************************************************************)
(* The caller of a constructor keeps the slice it passed.                  *)
(* NewRightmostTrustedRangeStrategy stores the slice trustedRanges as it   *)
(* is, and NewChainStrategy the slice of its variadic parameter, which     *)
(* for NewChainStrategy(subs...) is the caller's slice subs: in both the   *)
(* strategy's slice and the caller's share one array. The model holds that *)
(* array once, in the strategy; arg records the elements the caller        *)
(* passed, as they were at the call.                                       *)
(***************************************************************************)

\* The range lists a caller converts and passes.
CallerRangeLists == {<<"10.0.0.0/8">>, <<"192.168.0.0/16", "1.1.1.1">>}

\* The ranges a caller stores into its slice afterwards.
CallerOtherRanges == AddressesAndRangesToIPNets(<<"2.2.2.0/24", "10.0.0.0/8">>).nets

\* The strategy lists a caller passes as subs... .
CallerStrategyLists ==
  {<<NewSingleIPHeaderStrategy("X-Real-IP").strat, RemoteAddrStrategy>>,
   <<NewRightmostNonPrivateStrategy("X-Forwarded-For").strat>>}

\* A constructor call returns made; passed are the elements of the slice
\* the caller gave it.
MadeFrom(made, passed) ==
  /\ pc' = "made"
  /\ strat' = made.strat
  /\ err' = made.err
  /\ arg' = passed
  /\ UNCHANGED <<headers, remoteAddr, result, panicked, ipAddrs, calls>>
  /\ UNCHANGED <<ret, threads>>

\* ranges, _ := AddressesAndRangesToIPNets(...)
\* strat, err := NewRightmostTrustedRangeStrategy(headerName, ranges)
CallerMakesRightmostTrustedRange ==
  /\ Starting
  /\ \E headerName \in {"X-Forwarded-For", "Forwarded"}, ranges \in CallerRangeLists :
       MadeFrom(NewRightmostTrustedRangeStrategy(
                  headerName, AddressesAndRangesToIPNets(ranges).nets),
                AddressesAndRangesToIPNets(ranges).nets)

\* strat := NewChainStrategy(subs...)
CallerMakesChain ==
  /\ Starting
  /\ \E subs \in CallerStrategyLists :
       MadeFrom(Built(NewChainStrategy(subs)), subs)

\* A store into the shared array changes the strategy and nothing else.
StoreThrough(written) ==
  /\ strat' = written
  /\ UNCHANGED <<pc, err, headers, remoteAddr, result, panicked, ipAddrs, calls>>
  /\ UNCHANGED otherCalls

\* ranges[i] = n, by the caller, between two requests.
CallerWritesRange ==
  /\ Serving("RightmostTrustedRangeStrategy")
  /\ \E i \in 1..Len(strat.trustedRanges), k \in 1..Len(CallerOtherRanges) :
       StoreThrough([strat EXCEPT !.trustedRanges[i] = CallerOtherRanges[k]])

\* subs[i] = RemoteAddrStrategy, by the caller, between two requests.
CallerWritesStrategy ==
  /\ Serving("ChainStrategy")
  /\ \E i \in 1..Len(strat.strategies) :
       StoreThrough([strat EXCEPT !.strategies[i] = RemoteAddrStrategy])

NextCaller ==
  \/ CallerMakesRightmostTrustedRange
  \/ CallerMakesChain
  \/ CallerWritesRange
  \/ CallerWritesStrategy
  \/ ServeRightmostTrustedRange
  \/ ServeChain
  \/ NextRequest

SpecCaller == Init /\ [][NextCaller]_vars

\* The elements a strategy works with: its ranges, or its sub-strategies.
C19_Configuration(s) ==
  IF s.kind = "ChainStrategy" THEN s.strategies ELSE s.trustedRanges

\* C19: once a constructor has returned, the strategy's configuration stays
\* what was passed to the constructor: the trusted ranges of a
\* RightmostTrustedRangeStrategy and the sub-strategies of a ChainStrategy
\* are the elements the caller passed, whatever the caller stores into its
\* slice afterwards.
C19_ConfigurationAsPassed ==
  pc \in {"made", "served"} => C19_Configuration(strat) = arg

(***************************************************************************)
(* One strategy, called from several goroutines at once, as the handlers   *)
(* of an http.Server do. A call of ClientIP is taken apart at the places   *)
(* where it reads what it shares with the other calls: getIPAddrList       *)
(* reads strat.headerName and the caller's headers and builds the list in  *)
(* its own variable result; the rest of the method reads that list, the    *)
(* strategy's fields and privateAndLocalRanges. A panic ends the call of   *)
(* the goroutine it happens in.                                            *)
(*                                                                         *)
(* threads.call[g] is the call of goroutine g: pc ("idle", "called",       *)
(* "listed", "done"), the request req, for a chain the index of the        *)
(* sub-strategy at work, and out, what the call leaves. threads.list[v] is *)
(* the list held by the variable v.                                        *)
(***************************************************************************)

\* The number of goroutines that call ClientIP.
NumGoroutines == 2

Goroutines == 1..NumGoroutines

\* The strategies shared, as their constructors return them; the one with
\* the trusted count 0 is the zero value that comes with the error.
SharedStrategies ==
  {Built(RemoteAddrStrategy),
   NewSingleIPHeaderStrategy("X-Real-IP"),
   NewLeftmostNonPrivateStrategy("X-Forwarded-For"),
   NewRightmostNonPrivateStrategy("Forwarded"),
   NewRightmostTrustedCountStrategy("X-Forwarded-For", 1),
   NewRightmostTrustedCountStrategy("X-Forwarded-For", 0),
   NewRightmostTrustedRangeStrategy("X-Forwarded-For", someRanges),
   Built(NewChainStrategy(<<NewSingleIPHeaderStrategy("X-Real-IP").strat,
                            NewRightmostNonPrivateStrategy("X-Forwarded-For").strat,
                            RemoteAddrStrategy>>)),
   Built(NewChainStrategy(<<>>))}

\* The requests the goroutines handle.
ThreadRequests ==
  {[headers |-> ("X-Forwarded-For" :> <<"9.9.9.9, 1.1.1.1">>
                 @@ "Forwarded" :> <<"for=4.4.4.4">>
                 @@ "X-Real-Ip" :> <<"3.3.3.3">>),
    remoteAddr |-> "5.5.5.5:80"],
   [headers |-> ("X-Forwarded-For" :> <<"2.2.2.2", "nope, 8.8.8.8">>
                 @@ "Forwarded" :> <<"for=\"[2607:f8b0::1]:80\", for=10.0.0.1">>),
    remoteAddr |-> "10.0.0.1:1"],
   [headers |-> <<>>, remoteAddr |-> ""]}

NoRequest == [headers |-> <<>>, remoteAddr |-> ""]

\* A goroutine that is not in a call.
Idle == [pc |-> "idle", req |-> NoRequest, index |-> 0, out |-> Returns("")]

\* A faulty listSlot, to try C20 on: the list is built in one variable of
\* the package that all calls use.
listSlotShared(g) == 1

\* The variable that holds the list of goroutine g's call: the local
\* variable result of its own getIPAddrList call.
listSlot(g) == g

\* The strategy is handed to the goroutines; arg keeps it as it was made.
ShareStrategy ==
  /\ Starting
  /\ \E made \in SharedStrategies :
       /\ strat' = made.strat
       /\ err' = made.err
  /\ pc' = "made"
  /\ threads' = [call |-> [g \in Goroutines |-> Idle],
                 list |-> [v \in Goroutines |-> <<>>]]
  /\ arg' = strat'
  /\ UNCHANGED <<headers, remoteAddr, result, panicked, ipAddrs, calls, ret>>

\* A step of goroutine g: its call becomes c and the list variables become
\* lists; nothing else is written.
Step(g, c, lists) ==
  /\ threads' = [call |-> [threads.call EXCEPT ![g] = c], list |-> lists]
  /\ UNCHANGED <<pc, strat, err, headers, remoteAddr, result, panicked, ipAddrs, calls>>
  /\ UNCHANGED <<arg, ret>>

\* The strategy whose ClientIP is at work in the call c: the strategy
\* itself, or the sub-strategy of the chain that the loop is at.
atWork(c) ==
  IF strat.kind = "ChainStrategy" THEN strat.strategies[c.index] ELSE strat

\* The call c ends with r.
ended(c, r) == [c EXCEPT !.pc = "done", !.out = r]

\* The call c goes to the next strategy to call: for a chain the next round
\* of the loop, which returns "" when no sub-strategy is left.
startSub(c) ==
  IF strat.kind = "ChainStrategy" /\ c.index + 1 > Len(strat.strategies)
  THEN ended(c, Returns(""))
  ELSE [c EXCEPT !.pc = "called", !.index = c.index + 1]

\* The strategy at work in c returned r: a chain goes on after "".
subReturns(c, r) ==
  IF strat.kind = "ChainStrategy" /\ ~r.panicked /\ r.ret = ""
  THEN startSub(c)
  ELSE ended(c, r)

\* ClientIP of a list strategy s after getIPAddrList returned list.
selectFrom(s, list) ==
  CASE s.kind = "LeftmostNonPrivateStrategy" -> leftmostLoop(list, 1)
    [] s.kind = "RightmostNonPrivateStrategy" -> rightmostNonPrivateOf(list)
    [] s.kind = "RightmostTrustedCountStrategy" ->
         trustedCountSelect(list, s.trustedCount)
    [] s.kind = "RightmostTrustedRangeStrategy" ->
         trustedRangeSelect(list, s.trustedRanges)

\* Goroutine g calls strat.ClientIP for a request.
GoClientIP(g) ==
  /\ pc = "made"
  /\ threads.call[g].pc = "idle"
  /\ \E req \in ThreadRequests :
       Step(g, startSub([Idle EXCEPT !.req = req]), threads.list)

\* getIPAddrList in goroutine g: the list is built in the call's variable.
BuildList(g) ==
  /\ pc = "made"
  /\ threads.call[g].pc = "called"
  /\ atWork(threads.call[g]).kind \in ListKinds
  /\ Step(g, [threads.call[g] EXCEPT !.pc = "listed"],
          [threads.list EXCEPT ![listSlot(g)] =
             getIPAddrList(threads.call[g].req.headers,
                           atWork(threads.call[g]).headerName)])

\* The rest of a list strategy's ClientIP in goroutine g, on the list its
\* variable holds.
SelectFromList(g) ==
  /\ pc = "made"
  /\ threads.call[g].pc = "listed"
  /\ Step(g, subReturns(threads.call[g],
                        selectFrom(atWork(threads.call[g]),
                                   threads.list[listSlot(g)])),
          threads.list)

\* ClientIP of a strategy that builds no list, in goroutine g.
ReadSingle(g) ==
  /\ pc = "made"
  /\ threads.call[g].pc = "called"
  /\ atWork(threads.call[g]).kind \notin ListKinds
  /\ Step(g, subReturns(threads.call[g],
                        ClientIP(atWork(threads.call[g]),
                                 threads.call[g].req.headers,
                                 threads.call[g].req.remoteAddr)),
          threads.list)

\* The call of goroutine g returns to its caller; its variable is gone.
ReturnClientIP(g) ==
  /\ pc = "made"
  /\ threads.call[g].pc = "done"
  /\ Step(g, Idle, [threads.list EXCEPT ![listSlot(g)] = <<>>])

NextThreads ==
  \/ ShareStrategy
  \/ \E g \in Goroutines : GoClientIP(g)
  \/ \E g \in Goroutines : BuildList(g)
  \/ \E g \in Goroutines : SelectFromList(g)
  \/ \E g \in Goroutines : ReadSingle(g)
  \/ \E g \in Goroutines : ReturnClientIP(g)

SpecThreads == Init /\ [][NextThreads]_vars

\* The goroutines share a strategy.
Shared == pc = "made" /\ threads # <<>>

\* What the call c leaves is what ClientIP leaves for its request when it is
\* the only call.
C20_AsAlone(c) ==
  c.out = ClientIP(strat, c.req.headers, c.req.remoteAddr)

\* C20: ClientIP is threadsafe for every strategy: however the calls of the
\* goroutines on one strategy are interleaved, each call that ends leaves
\* what it would leave when run alone, and the strategy they were given
\* is as it was.
C20_Threadsafe ==
  Shared =>
    /\ strat = arg
    /\ \A g \in Goroutines :
         threads.call[g].pc = "done" => C20_AsAlone(threads.call[g])

\* Two calls of a list strategy at their ends together, for different
\* requests, each with its own list and its own address.
C20_Witness ==
  /\ Shared
  /\ strat.kind = "RightmostNonPrivateStrategy"
  /\ threads.call[1].pc = "done"
  /\ threads.call[2].pc = "done"
  /\ threads.call[1].out = Returns("4.4.4.4")
  /\ threads.call[2].out = Returns("2607:f8b0::1")
  /\ threads.list[1] # threads.list[2]

(***************************************************************************)
(* The round trip of TestParseIPAddr: a token is parsed, the address is    *)
(* written with net.IPAddr.String, and that text is parsed and written     *)
(* again.                                                                  *)
(***************************************************************************)

\* The addresses, the zones and the ways to wrap them of the tokens tried.
RoundTripAddresses ==
  {"1.1.1.1", "::ffff:1.2.3.4", "::ffff:102:304", "2607:f8b0::1", "fe80::1", "nope"}

RoundTripZones == {"", "eth0", "1", "x:y", "a b", "z]"}

\* The token of an address a with the zone z, wrapped in the way w.
wrapped(a, z, w) ==
  CASE w = "plain" -> (IF z = "" THEN a ELSE a \o "%" \o z)
    [] w = "brackets" -> "[" \o (IF z = "" THEN a ELSE a \o "%" \o z) \o "]"
    [] w = "port" -> (IF z = "" THEN a ELSE a \o "%" \o z) \o ":80"
    [] w = "bracketsPort" -> "[" \o (IF z = "" THEN a ELSE a \o "%" \o z) \o "]:80"

RoundTripTokens ==
  {wrapped(a, z, w) : a \in RoundTripAddresses, z \in RoundTripZones,
                      w \in {"plain", "brackets", "port", "bracketsPort"}}

\* ipAddr.String() of what ParseIPAddr returned, "" after an error.
stringOf(ipAddr) == IF ipAddr.ok THEN IPAddrString(ipAddr) ELSE ""

\* ParseIPAddr(token), its String(), ParseIPAddr of that and its String().
roundTrip(first) ==
  [fn |-> "RoundTrip",
   first |-> first,
   str |-> stringOf(first),
   second |-> ParseIPAddr(stringOf(first)),
   again |-> stringOf(ParseIPAddr(stringOf(first)))]

CallRoundTrip ==
  /\ Calling
  /\ Returned(roundTrip(ParseIPAddr(arg)))

NextRoundTrip == CallRoundTrip

SpecRoundTrip == InitCall(RoundTripTokens) /\ [][NextRoundTrip]_vars

\* C21: for every token ParseIPAddr accepts, whatever its zone, the text of
\* the parsed address parses again, to the same address bytes and the same
\* zone, and its text is the same text.
C21_RoundTrip ==
  (pc = "returned" /\ ret.fn = "RoundTrip" /\ ret.first.ok) =>
    /\ ret.second.ok
    /\ ret.again = ret.str
    /\ ret.second.IP = ret.first.IP
    /\ ret.second.Zone = ret.first.Zone

(***************************************************************************)
(* One address written in several texts: each text is the remote address   *)
(* and the value of every header of a request handed to one strategy of    *)
(* each type, and goes through the range checks.                           *)
(***************************************************************************)

\* IPv4 addresses, each with its IPv4-mapped IPv6 spellings: with the
\* dotted tail, in hexadecimal groups, and written out in full.
MappedSpellings ==
  {[v4 |-> "1.2.3.4",
    texts |-> {"::ffff:1.2.3.4", "::ffff:102:304", "0:0:0:0:0:ffff:0102:0304"}],
   [v4 |-> "192.168.1.20",
    texts |-> {"::ffff:192.168.1.20", "::FFFF:c0a8:114", "0:0:0:0:0:ffff:c0a8:0114"}],
   [v4 |-> "188.21.0.6",
    texts |-> {"::ffff:188.21.0.6", "::ffff:bc15:6", "0:0:0:0:0:ffff:bc15:0006"}]}

\* The NAT64 and 6to4 addresses that hold an IPv4 address, each with the
\* text net.IP.String gives it.
EmbeddingSpellings ==
  {[v6 |-> "64:ff9b::102:304", texts |-> {"64:ff9b::1.2.3.4", "64:ff9b::102:304"}],
   [v6 |-> "64:ff9b::c0a8:114", texts |-> {"64:ff9b::192.168.1.20"}],
   [v6 |-> "2002:102:304::", texts |-> {"2002:102:304::", "2002:0102:0304:0:0:0:0:0"}]}

\* A text as it is, in brackets, and in brackets with a port.
bracketForms(t) == {t, "[" \o t \o "]", "[" \o t \o "]:8080"}

\* The texts of the IPv4 address of m: dotted (also with a port alone) and
\* its IPv4-mapped spellings.
v4Forms(m) ==
  {[kind |-> "v4", addr |-> m.v4, text |-> f] :
     f \in bracketForms(m.v4) \cup {m.v4 \o ":8080"}
           \cup UNION {bracketForms(t) : t \in m.texts}}

v6Forms(m) ==
  {[kind |-> "v6", addr |-> m.v6, text |-> f] :
     f \in UNION {bracketForms(t) : t \in m.texts}}

AddressForms ==
  UNION {v4Forms(m) : m \in MappedSpellings}
    \cup UNION {v6Forms(m) : m \in EmbeddingSpellings}

\* One strategy of each type, and a trusted-range strategy with ranges.
FormStrategies ==
  TokenStrategies
    \cup {NewRightmostTrustedRangeStrategy("X-Forwarded-For", someRanges).strat}

\* strat.ClientIP for a request that holds the text everywhere.
CallClientIPOnForm ==
  /\ Calling
  /\ \E s \in FormStrategies :
       Returned([fn |-> "ClientIP", strat |-> s,
                 out |-> ClientIP(s, headersOfToken(arg.text), arg.text)])

\* The range checks on the address ipAddr parsed from the text.
rangeChecks(ipAddr) ==
  [fn |-> "rangeChecks",
   ipAddr |-> ipAddr,
   private |-> ipAddr.ok /\ isPrivateOrLocal(ipAddr.IP),
   trusted |-> ipAddr.ok /\ isIPContainedInRanges(ipAddr.IP, someRanges)]

CallRangeChecks ==
  /\ Calling
  /\ Returned(rangeChecks(goodIPAddr(arg.text)))

NextForms ==
  \/ CallClientIPOnForm
  \/ CallRangeChecks

SpecForms == InitCall(AddressForms) /\ [][NextForms]_vars

\* What a strategy leaves for the text at hand is what it leaves for the
\* plain address addr, and is that address or nothing.
C22_SameOutput(s, out, addr) ==
  /\ ~out.panicked
  /\ out = ClientIP(s, headersOfToken(addr), addr)
  /\ out.ret \in {"", addr}
  /\ s.kind = "RemoteAddrStrategy" => out.ret = addr

\* The range checks class the text at hand as they class the plain IPv4
\* address addr.
C22_SameClass(r, addr) ==
  /\ r.ipAddr.ok
  /\ To4(r.ipAddr.IP) = To4(ParseIP(addr))
  /\ r.private = isPrivateOrLocal(ParseIP(addr))
  /\ r.trusted = isIPContainedInRanges(ParseIP(addr), someRanges)

\* A NAT64 or 6to4 address stays an IPv6 address: it has no 4-byte form, no
\* IPv4 range holds it, and of the built-in table only 2002::/16 does.
C22_StaysIPv6(r, addr) ==
  /\ r.ipAddr.ok
  /\ To4(r.ipAddr.IP) = <<>>
  /\ IPString(r.ipAddr.IP) = addr
  /\ ~r.trusted
  /\ r.private <=> Slice(addr, 0, 5) = "2002:"

\* C22: every text of one IPv4 address (dotted, IPv4-mapped with a dotted
\* tail or in hexadecimal, each also in brackets and with a port) gives the
\* same dotted text from every strategy and the same answers from the range
\* checks, while a NAT64 or 6to4 address keeps its IPv6 text and is not
\* taken for the IPv4 address it holds.
C22_OneAddressManyTexts ==
  pc = "returned" =>
    CASE ret.fn = "ClientIP" -> C22_SameOutput(ret.strat, ret.out, arg.addr)
      [] ret.fn = "rangeChecks" /\ arg.kind = "v4" -> C22_SameClass(ret, arg.addr)
      [] ret.fn = "rangeChecks" /\ arg.kind = "v6" -> C22_StaysIPv6(ret, arg.addr)
      [] OTHER -> TRUE

\* The private address 192.168.1.20 in hexadecimal, in brackets with a
\* port, classed as private and as trusted.
C22_Witness ==
  /\ pc = "returned"
  /\ ret.fn = "rangeChecks"
  /\ arg.text = "[::FFFF:c0a8:114]:8080"
  /\ ret.private
  /\ ret.trusted

(***************************************************************************)
(* Calls of parseForwardedListItem, as Test_parseForwardedListItem makes   *)
(* them: the item is a list of at most MaxParams parameters joined by ';'. *)
(***************************************************************************)

\* The most parameters of a Forwarded list item.
MaxParams == 2

\* The parameters, each with what is to be read from it: key, whether it is
\* a "for" parameter when split at its first '='; one, whether it has one
\* '=' and no more; addr, the text of the address its value holds, "" if
\* the value is empty or no address.
ForwardedParams ==
  {[text |-> "for=1.1.1.1",          key |-> TRUE,  one |-> TRUE,  addr |-> "1.1.1.1"],
   [text |-> " FOR=\"2.2.2.2\" ",    key |-> TRUE,  one |-> TRUE,  addr |-> "2.2.2.2"],
   [text |-> "fOr= [2607:f8b0::1]:80", key |-> TRUE, one |-> TRUE, addr |-> "2607:f8b0::1"],
   [text |-> "For=\"[2001:db8:cafe::17]:4711\"", key |-> TRUE, one |-> TRUE,
    addr |-> "2001:db8:cafe::17"],
   [text |-> "for=\"2001:db8:cafe::17\"", key |-> TRUE, one |-> TRUE,
    addr |-> "2001:db8:cafe::17"],
   [text |-> "fOR=\"[2001:db8:cafe::17]\"", key |-> TRUE, one |-> TRUE,
    addr |-> "2001:db8:cafe::17"],
   [text |-> "FOR=[2001:db8:cafe::17]", key |-> TRUE, one |-> TRUE,
    addr |-> "2001:db8:cafe::17"],
   [text |-> "for=3.3.3.3=x",        key |-> TRUE,  one |-> FALSE, addr |-> ""],
   [text |-> "for=nope",             key |-> TRUE,  one |-> TRUE,  addr |-> ""],
   [text |-> "for=",                 key |-> TRUE,  one |-> TRUE,  addr |-> ""],
   [text |-> "for= \"\" ",           key |-> TRUE,  one |-> TRUE,  addr |-> ""],
   [text |-> "for",                  key |-> FALSE, one |-> FALSE, addr |-> ""],
   [text |-> "by=4.4.4.4",           key |-> FALSE, one |-> TRUE,  addr |-> ""],
   [text |-> "forx=5.5.5.5",         key |-> FALSE, one |-> TRUE,  addr |-> ""],
   [text |-> "host=a=b",             key |-> FALSE, one |-> FALSE, addr |-> ""]}

ForwardedParamLists == UNION {[1..n -> ForwardedParams] : n \in 0..MaxParams}

\* The item made of the parameters from index i on.
RECURSIVE joinParams(_, _)
joinParams(params, i) ==
  IF i > Len(params) THEN ""
  ELSE IF i = Len(params) THEN params[i].text
  ELSE params[i].text \o ";" \o joinParams(params, i + 1)

CallParseForwardedListItem ==
  /\ Calling
  /\ Returned([fn |-> "parseForwardedListItem",
               ipAddr |-> parseForwardedListItem(joinParams(arg, 1))])

NextForwarded == CallParseForwardedListItem

SpecForwarded == InitCall(ForwardedParamLists) /\ [][NextForwarded]_vars

ReturnedFromForwarded ==
  pc = "returned" /\ ret.fn = "parseForwardedListItem"

\* The result is the address of the text addr, nil for "".
C23_Is(ipAddr, addr) ==
  IF addr = "" THEN ~ipAddr.ok
  ELSE ipAddr.ok /\ IPAddrString(ipAddr) = addr

\* The address text of the first of the parameters from i on that is marked
\* in the set chosen, "" if none is.
RECURSIVE C23_FirstOf(_, _, _)
C23_FirstOf(params, i, chosen) ==
  IF i > Len(params) THEN ""
  ELSE IF params[i] \in chosen THEN params[i].addr
  ELSE C23_FirstOf(params, i + 1, chosen)

\* C23 as it was stated: the value of the first parameter whose key, up to
\* its first '=', is "for" is used, whatever comes after that '=', and the
\* later ones are ignored; without such a parameter, or with an empty value,
\* the item is invalid.
C23_FirstForAtFirstEquals ==
  ReturnedFromForwarded =>
    C23_Is(ret.ipAddr, C23_FirstOf(arg, 1, {p \in ForwardedParams : p.key}))

\* C23: parseForwardedListItem splits the item on ';', trims each
\* parameter and splits it at every '='; a parameter that does not have
\* exactly one '=' is passed over; the value of the first of the others
\* whose key is "for" in any case is used and every later one is ignored;
\* without such a parameter, or with a value that is empty after trimming
\* whitespace and quotes, the item is invalid.
C23_FirstForWithOneEquals ==
  ReturnedFromForwarded =>
    C23_Is(ret.ipAddr,
           C23_FirstOf(arg, 1, {p \in ForwardedParams : p.key /\ p.one}))

\* A "for" parameter with two '=' is passed over and the next one is used.
C23_Witness ==
  /\ ReturnedFromForwarded
  /\ Len(arg) = 2
  /\ arg[1].text = "for=3.3.3.3=x"
  /\ arg[2].text = " FOR=\"2.2.2.2\" "
  /\ ret.ipAddr.ok
  /\ IPAddrString(ret.ipAddr) = "2.2.2.2"

(***************************************************************************)
(* An address alone and in square brackets, handed to ParseIPAddr and, as  *)
(* the remote address and the value of every header, to one strategy of    *)
(* each type.                                                              *)
(***************************************************************************)

\* Addresses in dotted decimal, and addresses (and a word) with colons.
DottedAddresses == {"1.1.1.1", "192.168.1.1", "no.pe"}

ColonAddresses == {"::ffff:1.2.3.4", "2607:f8b0::1", "fe80::1", "::", "no:pe:"}

BracketZones == {"", "eth0", "x:y", "z]"}

\* The address a with the zone z.
zoned(a, z) == IF z = "" THEN a ELSE a \o "%" \o z

\* The texts that hold an address and no port. A dotted address with a
\* zone that has a colon is left out: like 1.1.1.1:80, the text 1.1.1.1%x:y
\* has the form host:port.
BracketInputs ==
  {zoned(a, z) : a \in ColonAddresses, z \in BracketZones}
    \cup {zoned(a, z) : a \in DottedAddresses, z \in BracketZones \ {"x:y"}}

\* ParseIPAddr of the text alone, in brackets, and with one bracket only.
CallParseIPAddrBracketed ==
  /\ Calling
  /\ Returned([fn |-> "ParseIPAddr",
               alone |-> ParseIPAddr(arg),
               bracketed |-> ParseIPAddr("[" \o arg \o "]"),
               opened |-> ParseIPAddr("[" \o arg),
               closed |-> ParseIPAddr(arg \o "]")])

\* strat.ClientIP for the text alone and in brackets.
CallClientIPBracketed ==
  /\ Calling
  /\ \E s \in TokenStrategies :
       Returned([fn |-> "ClientIP", strat |-> s,
                 alone |-> ClientIP(s, headersOfToken(arg), arg),
                 bracketed |-> ClientIP(s, headersOfToken("[" \o arg \o "]"),
                                        "[" \o arg \o "]")])

NextBrackets ==
  \/ CallParseIPAddrBracketed
  \/ CallClientIPBracketed

SpecBrackets == InitCall(BracketInputs) /\ [][NextBrackets]_vars

\* The text ends with a closing bracket.
C24_KeepsBracket(zone) ==
  Len(zone) > 0 /\ At(zone, Len(zone) - 1) = "]"

C25_BracketedWithoutPort ==
  {"fOR=\"[2001:db8:cafe::17]\"", "FOR=[2001:db8:cafe::17]"}

\* C25: parseForwardedListItem returns nil for a "for" value that is an
\* IPv6 address in square brackets without a port, quoted or not, as
\* Test_parseForwardedListItem wants it.
C25_BracketedWithoutPortInvalid ==
  (ReturnedFromForwarded /\ Len(arg) = 1
     /\ arg[1].text \in C25_BracketedWithoutPort) => ~ret.ipAddr.ok

(***************************************************************************)
(* Texts with percent signs, handed to SplitHostZone and to ParseIPAddr.   *)
(***************************************************************************)

\* The texts before the port: addresses with no, one and several '%'.
ZoneBodies ==
  {"", "fe80::1", "fe80::1%eth0", "1.1.1.1%a", "::%1", "nope%zone", "1.1.1.1%",
   "%eth0", "%", "%%", "1.1.1.1%a%b", "fe80::1%a%b", "1.1.1.1%%"}

\* The ways a port follows: none, a number, a text with a '%'; after the
\* text itself or after the text in brackets.
ZonePorts == {"", ":80", ":%b"}

ZoneInputs ==
  {[body |-> b, text |-> b \o p] : b \in ZoneBodies, p \in ZonePorts}
    \cup {[body |-> b, text |-> "[" \o b \o "]" \o p] :
            b \in ZoneBodies, p \in ZonePorts \ {""}}

CallSplitHostZone ==
  /\ Calling
  /\ Returned([fn |-> "SplitHostZone",
               host |-> SplitHostZone(arg.text).host,
               zone |-> SplitHostZone(arg.text).zone])

\* The host and the zone inside ParseIPAddr, after SplitHostPort returned
\* hp: the host is what net.ParseIP is called with.
hostZoneOf(hp, ipStr) ==
  SplitHostZone(trimMatchedEnds(IF ~hp.err THEN hp.host ELSE ipStr, "[]"))

CallParseIPAddrZoned ==
  /\ Calling
  /\ Returned([fn |-> "ParseIPAddr",
               ipAddr |-> ParseIPAddr(arg.text),
               handed |-> hostZoneOf(SplitHostPort(arg.text), arg.text).host])

NextZone ==
  \/ CallSplitHostZone
  \/ CallParseIPAddrZoned

SpecZone == InitCall(ZoneInputs) /\ [][NextZone]_vars

\* The number of '%' in s from index i on.
RECURSIVE C26_Percents(_, _)
C26_Percents(s, i) ==
  IF i >= Len(s) THEN 0
  ELSE (IF At(s, i) = "%" THEN 1 ELSE 0) + C26_Percents(s, i + 1)

\* SplitHostZone(s) returned host and zone as stated: with a '%' after the
\* first character, s is host, "%" and a zone without '%'; else host is s.
C26_Split(s, host, zone) ==
  IF C26_Percents(s, 1) > 0
  THEN s = host \o "%" \o zone /\ C26_Percents(zone, 0) = 0
  ELSE host = s /\ zone = ""

\* ParseIPAddr kept the zone from net.ParseIP: an address it returns has no
\* '%' in the text handed on, and it has a zone only when the text before
\* the port has a '%'.
C26_ZoneKept(r) ==
  r.ipAddr.ok =>
    /\ C26_Percents(r.handed, 0) = 0
    /\ r.ipAddr.Zone # "" => C26_Percents(arg.body, 0) > 0

\* C26 as it was stated: SplitHostZone splits at the last '%' unless it is
\* the first character, the zone does not reach net.ParseIP, and a token
\* with more than one '%' is invalid.
C26_SeveralPercentsInvalid ==
  pc = "returned" =>
    CASE ret.fn = "SplitHostZone" -> C26_Split(arg.text, ret.host, ret.zone)
      [] ret.fn = "ParseIPAddr" ->
           /\ C26_ZoneKept(ret)
           /\ C26_Percents(arg.text, 0) > 1 => ~ret.ipAddr.ok
      [] OTHER -> TRUE

\* C26: SplitHostZone(s) splits at the last '%' of s when that is not the
\* first character, so that host, "%" and zone make s, and returns s and ""
\* otherwise; the zone does not reach net.ParseIP, and a token with more
\* than one '%' outside its port is invalid.
C26_SplitAtLastPercent ==
  pc = "returned" =>
    CASE ret.fn = "SplitHostZone" -> C26_Split(arg.text, ret.host, ret.zone)
      [] ret.fn = "ParseIPAddr" ->
           /\ C26_ZoneKept(ret)
           /\ C26_Percents(arg.body, 0) > 1 => ~ret.ipAddr.ok
      [] OTHER -> TRUE

\* A text of two '%' split at the last one.
C26_Witness ==
  /\ pc = "returned"
  /\ ret.fn = "SplitHostZone"
  /\ arg.text = "fe80::1%a%b"
  /\ ret.host = "fe80::1%a"
  /\ ret.zone = "b"

(***************************************************************************)
(* Calls of the strategies that read a header, on one header collection:   *)
(* arg is the name of the header and the sequence of its values.           *)
(***************************************************************************)

HeaderInputs ==
  UNION {{[name |-> name, values |-> values] : values \in ValueListsOf(name)} :
           name \in RequestHeaderNames}

\* The header collection that holds the values under the name, and nothing
\* else.
onlyHeader(name, values) == [h \in {name} |-> values]

\* The call is for one of the two list headers.
CallingWithList == Calling /\ arg.name \in {xForwardedForHdr, forwardedHdr}

\* RightmostTrustedRangeStrategy.ClientIP, with and without trusted ranges.
CallRightmostTrustedRange ==
  /\ CallingWithList
  /\ \E ranges \in {someRanges, <<>>} :
       Returned([fn |-> "RightmostTrustedRange",
                 ranges |-> ranges,
                 list |-> getIPAddrList(onlyHeader(arg.name, arg.values), arg.name),
                 out |-> RightmostTrustedRangeClientIP(
                           NewRightmostTrustedRangeStrategy(arg.name, ranges).strat,
                           onlyHeader(arg.name, arg.values), peerAddr)])


\* One of the ranges holds the address ip.
C27_InSomeRange(ip, ranges) ==
  \E k \in 1..Len(ranges) : IPNetContains(ranges[k], ip)

\* The candidate a is valid and in one of the ranges.
C27_Trusted(a, ranges) == a.ok /\ C27_InSomeRange(a.IP, ranges)

\* The candidate at position i of the list is the one returned as s: it is
\* valid and its text is s, no trusted range holds it, and every candidate
\* to its right is valid and trusted.
C27_TakenFrom(list, i, s, ranges) ==
  /\ list[i].ok
  /\ IPAddrString(list[i]) = s
  /\ ~C27_InSomeRange(list[i].IP, ranges)
  /\ \A j \in (i + 1)..Len(list) : C27_Trusted(list[j], ranges)

\* C27: an address that RightmostTrustedRangeStrategy.ClientIP returns is in
\* no trusted range, and every candidate to the right of its position is
\* valid and in a trusted range: no invalid and no untrusted candidate is
\* passed over on the way to it.
C27_NothingSkipped ==
  (pc = "returned" /\ ret.fn = "RightmostTrustedRange" /\ ret.out.ret # "") =>
    /\ ~ret.out.panicked
    /\ \E i \in 1..Len(ret.list) : C27_TakenFrom(ret.list, i, ret.out.ret, ret.ranges)

\* The address left of two trusted ones is returned.
C27_Witness ==
  /\ pc = "returned"
  /\ ret.fn = "RightmostTrustedRange"
  /\ ret.ranges = someRanges
  /\ arg.name = xForwardedForHdr
  /\ arg.values = <<" [2607:f8b0::1%z]:80,192.168.1.1">>
  /\ ret.out.ret = "2607:f8b0::1%z"

\* LeftmostNonPrivateStrategy.ClientIP and RightmostNonPrivateStrategy.ClientIP
\* for the same header and the same header collection.
CallNonPrivateBoth ==
  /\ CallingWithList
  /\ Returned([fn |-> "NonPrivateBoth",
               list |-> getIPAddrList(onlyHeader(arg.name, arg.values), arg.name),
               leftmost |-> LeftmostNonPrivateClientIP(
                              NewLeftmostNonPrivateStrategy(arg.name).strat,
                              onlyHeader(arg.name, arg.values), peerAddr),
               rightmost |-> RightmostNonPrivateClientIP(
                               NewRightmostNonPrivateStrategy(arg.name).strat,
                               onlyHeader(arg.name, arg.values), peerAddr)])


\* s is the text of a valid address that the built-in table does not hold.
C28_PublicText(s) ==
  /\ goodIPAddr(s).ok
  /\ IPAddrString(goodIPAddr(s)) = s
  /\ ~C27_InSomeRange(goodIPAddr(s).IP, privateAndLocalRanges)

\* The positions of the valid candidates the built-in table does not hold.
C28_Public(list) ==
  {i \in 1..Len(list) :
     list[i].ok /\ ~C27_InSomeRange(list[i].IP, privateAndLocalRanges)}

\* C28: for the same header name and the same header collection,
\* LeftmostNonPrivateStrategy returns "" exactly when
\* RightmostNonPrivateStrategy does; what they return otherwise are valid
\* addresses outside the built-in private and local table, and the same
\* address when the list has exactly one valid candidate outside the table.
C28_LeftmostAndRightmost ==
  (pc = "returned" /\ ret.fn = "NonPrivateBoth") =>
    /\ ~ret.leftmost.panicked /\ ~ret.rightmost.panicked
    /\ ret.leftmost.ret = "" <=> ret.rightmost.ret = ""
    /\ ret.leftmost.ret # "" =>
         (C28_PublicText(ret.leftmost.ret) /\ C28_PublicText(ret.rightmost.ret))
    /\ Cardinality(C28_Public(ret.list)) = 1 => ret.leftmost = ret.rightmost

\* Two candidates outside the table: each strategy returns its own.
C28_Witness ==
  /\ pc = "returned"
  /\ ret.fn = "NonPrivateBoth"
  /\ Cardinality(C28_Public(ret.list)) = 2
  /\ ret.leftmost.ret = "1.1.1.1"
  /\ ret.rightmost.ret = "2607:f8b0::1%z"

\* The strategies that read the header of the given name.
HeaderStrategies(name) ==
  IF name = xRealIPHdr THEN {NewSingleIPHeaderStrategy(name).strat}
  ELSE {NewLeftmostNonPrivateStrategy(name).strat,
        NewRightmostNonPrivateStrategy(name).strat,
        NewRightmostTrustedCountStrategy(name, 1).strat,
        NewRightmostTrustedCountStrategy(name, 2).strat,
        NewRightmostTrustedRangeStrategy(name, someRanges).strat}

\* What else a request may hold next to the header of the given name: the
\* other headers of the model, and a header under the lower-case spelling
\* of the name, which is another key of the collection.
lowerCase(name) ==
  CASE name = xForwardedForHdr -> "x-forwarded-for"
    [] name = forwardedHdr -> "forwarded"
    [] name = xRealIPHdr -> "x-real-ip"

otherHeaders(name) ==
  [h \in (RequestHeaderNames \ {name}) \cup {lowerCase(name)} |->
     IF h = lowerCase(name) THEN <<"7.7.7.7">> ELSE OtherValues(h)]

\* The rest of a request: its other headers and its remote address.
Surroundings(name) ==
  {[others |-> otherHeaders(name), remoteAddr |-> peerAddr],
   [others |-> otherHeaders(name), remoteAddr |-> "@"]}

\* The header collection with the values under the name and the others.
withOthers(name, values, others) ==
  [h \in {name} \cup DOMAIN others |-> IF h = name THEN values ELSE others[h]]

\* strat.ClientIP for two requests that hold the same values under the
\* strategy's header: one with nothing else, one with other headers and a
\* remote address.
CallTwoRequests ==
  /\ Calling
  /\ \E s \in HeaderStrategies(arg.name), rest \in Surroundings(arg.name) :
       Returned([fn |-> "TwoRequests", strat |-> s, rest |-> rest,
                 bare |-> ClientIP(s, onlyHeader(arg.name, arg.values), ""),
                 out |-> ClientIP(s, withOthers(arg.name, arg.values, rest.others),
                                  rest.remoteAddr)])

\* RightmostTrustedRangeStrategy.ClientIP with the built-in private and
\* local table as its trusted ranges, and RightmostNonPrivateStrategy.ClientIP,
\* for the same header and the same header collection.
CallWithPrivateTable ==
  /\ CallingWithList
  /\ Returned([fn |-> "WithPrivateTable",
               list |-> getIPAddrList(onlyHeader(arg.name, arg.values), arg.name),
               trusted |-> RightmostTrustedRangeClientIP(
                             NewRightmostTrustedRangeStrategy(
                               arg.name, privateAndLocalRanges).strat,
                             onlyHeader(arg.name, arg.values), peerAddr),
               nonPrivate |-> RightmostNonPrivateClientIP(
                                NewRightmostNonPrivateStrategy(arg.name).strat,
                                onlyHeader(arg.name, arg.values), peerAddr)])

NextHeaders ==
  \/ CallRightmostTrustedRange
  \/ CallNonPrivateBoth
  \/ CallTwoRequests
  \/ CallWithPrivateTable

SpecHeaders == InitCall(HeaderInputs) /\ [][NextHeaders]_vars

\* C29: a strategy that reads a header returns the same for two requests
\* that hold the same sequence of values under that header, whatever their
\* remote addresses and their other headers, the other list header among
\* them.
C29_OnlyItsHeader ==
  (pc = "returned" /\ ret.fn = "TwoRequests") => ret.out = ret.bare

\* A request with every other header and a remote address gets the
\* address of its X-Forwarded-For header.
C29_Witness ==
  /\ pc = "returned"
  /\ ret.fn = "TwoRequests"
  /\ ret.strat.kind = "RightmostNonPrivateStrategy"
  /\ arg.name = xForwardedForHdr
  /\ DOMAIN ret.rest.others # {}
  /\ ret.rest.remoteAddr = peerAddr
  /\ ret.out.ret = "1.1.1.1"

\* An invalid candidate lies to the right of the rightmost valid candidate
\* that the built-in table does not hold.
C30_InvalidOnTheRight(list, G) ==
  G # {} /\ \E j \in (MaxOf(G) + 1)..Len(list) : ~list[j].ok

\* C30: with the built-in private and local table as its trusted ranges,
\* RightmostTrustedRangeStrategy returns no other address than
\* RightmostNonPrivateStrategy on the same header: when it returns one, the
\* other returns the same; they differ exactly when an invalid candidate
\* lies to the right of the rightmost valid non-private candidate, and then
\* the trusted-range strategy returns "" and the other an address.
C30_TrustedRangeRefines ==
  (pc = "returned" /\ ret.fn = "WithPrivateTable") =>
    /\ ret.trusted.ret # "" => ret.nonPrivate = ret.trusted
    /\ ret.trusted # ret.nonPrivate
         <=> C30_InvalidOnTheRight(ret.list, C28_Public(ret.list))
    /\ ret.trusted # ret.nonPrivate
         => (ret.trusted = Returns("") /\ ret.nonPrivate.ret # "")

\* An invalid candidate to the right of a public one: the two differ.
C30_Witness ==
  /\ pc = "returned"
  /\ ret.fn = "WithPrivateTable"
  /\ arg.name = xForwardedForHdr
  /\ Len(ret.list) = 2
  /\ ~ret.list[2].ok
  /\ ret.trusted.ret = ""
  /\ ret.nonPrivate.ret = "1.1.1.1"

=============================================================================
